---- MODULE Spec2Model ----
(***************************************************************************)
(* Change-detection pipeline of tvcd-be: the rate-limited fetch clients    *)
(* (throttle, retry with backoff) and the sheet-family listeners (poll     *)
(* gate, per-cycle diff against the in-memory snapshot, broadcast).        *)
(*                                                                         *)
(* Time is wall-clock milliseconds (Date.now()).  Every `await` of the     *)
(* code is a suspension point: the step before it and the step after it    *)
(* are separate actions, and any other handler may run in between.         *)
(***************************************************************************)
EXTENDS Integers, Sequences, FiniteSets, Bags, TLC

(***************************************************************************)
(* Bounds of the model.                                                    *)
(***************************************************************************)
NumCallers == 3      \* concurrent callers of one client's getSheetData
MaxElapses == 1      \* free passages of time (latency, arrival offsets)
ElapseMs == 40       \* length of one free passage of time, below the spacing
MaxQuota == 3        \* quota-exceeded answers the upstream gives in total
MaxCycles == 3       \* poll cycles one listener starts in total
MaxOverlap == 2      \* poll cycles of one listener that may be open at once
MaxTicks == 3        \* passages of wall-clock time seen by the listener
TickMs == 45000      \* length of one passage of wall-clock time
MaxEvents == 2       \* sheet edits, failing reads, loads and manual checks in total
MaxRows == 7         \* rows of the DATA_CD grid below its header
MaxDetailRows == 3   \* rows of the ENDLINE grid below its header
MaxChanges == 2      \* changes one cycle has to publish
MaxSlots == 2        \* time slots of a record the fingerprint looks at
MaxSubRows == 1      \* sub-rows, groups, products of a record, details of a product
MaxQslRows == 6      \* rows of a QSL LINE sheet
MaxFillRows == 3     \* rows whose identifier columns are filled forward
NumCacheCallers == 2 \* concurrent callers of one read-through cache
MaxCacheTicks == 7   \* passages of time seen by the cache
CacheTickMs == 5000  \* length of one passage of time seen by the cache
MaxReads == 2        \* upstream reads issued for the cache key in total
MaxProductionCalls == 3 \* calls of getProductionData in total
MaxChecks == 2       \* HTM cycles over the tracked key while the sheets stay as they are

(***************************************************************************)
(* Program constants.                                                      *)
(***************************************************************************)
MIN_REQUEST_INTERVAL == 100
maxRetries == 3

VARIABLES
    clientKind,       \* which fetch client this instance is
    sinceRequest,     \* Date.now() - lastRequestTime, saturated at the interval
    calls,            \* the callers' getSheetData calls, a bag: callers are alike
    sinceIssued,      \* time since the latest upstream request, saturated; -1 if none
    minGap,           \* smallest time between two consecutive requests; -1 if none
    elapses,          \* free passages of time used so far
    quotaAnswers,     \* quota-exceeded answers given so far
    listenerKind,     \* which sheet-family listener this instance is
    now,              \* Date.now(), in Vietnam local time
    isListening,      \* listener field isListening
    lastCheckTime,    \* listener field lastCheckTime
    previousData,     \* listener field previousData: key -> {data, checksum}
    origin,           \* per key, when the fetch behind the stored entry was issued
    entries,          \* the entry list of the previousData Map, in insertion order
    upstream,         \* the sheet: key -> the entity's data, "none" if absent
    cycles,           \* the open poll cycles, each at its suspension point
    lastStart,        \* start time of the most recent cycle, -1 if none
    lastTrigger,      \* what the scheduler trigger at this instant did, if any
    budget,           \* cycles started, ticks and outside events so far
    dataRows,         \* CD getProductionData: `data`, the DATA_CD rows below the header
    scanIndex,        \* CD getProductionData: the loop variable i
    cdGroups,         \* CD getProductionData: code -> {parentRow, teamRows}
    mismatches,       \* CD getProductionData: the set of mismatches logged
    normalized,       \* CD getProductionData: the scan and its verification are over
    productionValues, \* HTM: the DATA BCSL HTM rows below the header
    rftValues,        \* HTM: the ENDLINE rows below the header
    request,          \* HTM getProductionDataWithEndlineMerge: its arguments
    merged,           \* HTM getProductionDataWithEndlineMerge: where it stands
    emitterKind,      \* broadcast: the listener whose cycle publishes
    rooms,            \* broadcast: the rooms of the socket server (each has a client)
    outbox,           \* broadcast: the changes of the cycle not yet published
    emitted,          \* broadcast: the changes emitChange has been through
    wire,             \* broadcast: the emit calls made on the socket server, in order
    logged,           \* broadcast: the lines written to the log, in order
    pubPc,            \* broadcast: where the publishing part of the cycle stands
    sumKind,          \* fingerprint: the listener that computes it
    storedRecord,     \* fingerprint: the record of the previous read
    currentRecord,    \* fingerprint: the record of this read
    storedSum,        \* fingerprint: the checksum of the stored record
    currentSum,       \* fingerprint: the checksum of the current record
    derivation,       \* fingerprint: what happened to the sheet between the reads
    sumPc,            \* fingerprint: where the comparison stands
    qslRows,          \* QSL parseGroupedData: dataRows
    qslTeams,         \* QSL parseGroupedData: the teams returned
    qslPc,            \* QSL: whether the sheet has been parsed
    fillRows,         \* fill-forward: the rows read
    filled,           \* fill-forward: the identifiers given to the rows
    fillKind,         \* fill-forward: the routine that filled them, "none" before
    utcMinutes,       \* ENDLINE sheet choice: the minute of the day of new Date(), UTC
    sheetConfig,      \* ENDLINE sheet choice: the sheetName returned, "none" before
    cacheKind,        \* read-through cache: the service that keeps it
    cacheNow,         \* read-through cache: Date.now(), from the construction
    dataCache,        \* read-through cache: the Map dataCache, cacheKey -> {data, timestamp}
    cacheCalls,       \* read-through cache: the callers' calls for the one key
    upstreamReads,    \* read-through cache: when each upstream read was issued
    cacheTicks,       \* read-through cache: passages of time so far
    isQuotaExceeded,  \* quota guard: service field isQuotaExceeded
    quotaResetTime,   \* quota guard: service field quotaResetTime
    quotaNow,         \* quota guard: Date.now(), from the construction
    productionCall,   \* quota guard: the getProductionData call, where it stands
    productionCalls,  \* quota guard: calls of getProductionData so far
    quotaRequests,    \* quota guard: upstream requests issued so far
    htmSnapshot,      \* HTM with a failing detail read: previousData of the tracked key
    htmChanges,       \* HTM with a failing detail read: the changes emitted
    htmChecks         \* HTM with a failing detail read: cycles so far

fetchVars == <<clientKind, sinceRequest, calls, sinceIssued, minGap, elapses,
               quotaAnswers>>
listenerVars == <<listenerKind, now, isListening, lastCheckTime, previousData,
                  origin, entries, upstream, cycles, lastStart, lastTrigger, budget>>
normalizeVars == <<dataRows, scanIndex, cdGroups, mismatches, normalized>>
mergeVars == <<productionValues, rftValues, request, merged>>
publishVars == <<emitterKind, rooms, outbox, emitted, wire, logged, pubPc>>
checksumVars == <<sumKind, storedRecord, currentRecord, storedSum, currentSum,
                  derivation, sumPc>>
parserVars == <<qslRows, qslTeams, qslPc, fillRows, filled, fillKind>>
sheetVars == <<utcMinutes, sheetConfig>>
cacheVars == <<cacheKind, cacheNow, dataCache, cacheCalls, upstreamReads, cacheTicks>>
quotaVars == <<isQuotaExceeded, quotaResetTime, quotaNow, productionCall,
               productionCalls, quotaRequests>>
degradeVars == <<htmSnapshot, htmChanges, htmChecks>>
serviceVars == <<sheetVars, cacheVars, quotaVars, degradeVars>>
vars == <<fetchVars, listenerVars, normalizeVars, mergeVars, publishVars,
          checksumVars, parserVars, serviceVars>>

ClientKinds == {"HTMSheetsService", "GoogleSheetsService"}
Outcomes == {"ok", "okNoValues", "quota", "error"}
JitterSamples == {0, 499}

Min(S) == CHOOSE x \in S : \A y \in S : x <= y

(***************************************************************************)
(* Fetch client.  HTMSheetsService stands for the three throttled,        *)
(* retrying clients (CDSheetsService and HTMCenterTVService repeat its     *)
(* throttleRequest and its retry loop); GoogleSheetsService makes a single *)
(* unthrottled attempt.                                                    *)
(* The client compares Date.now() with lastRequestTime only through their  *)
(* difference, and only against MIN_REQUEST_INTERVAL, so the state keeps   *)
(* the difference (timeSinceLastRequest), saturated at the interval; a     *)
(* pending setTimeout is the time left until it fires.                     *)
(***************************************************************************)
Throttled(kind) == kind = "HTMSheetsService"

Saturate(d) == IF d > MIN_REQUEST_INTERVAL THEN MIN_REQUEST_INTERVAL ELSE d

\* throttleRequest: the sleep it asks for, 0 when none
throttleDelay(timeSinceLastRequest) ==
    IF timeSinceLastRequest < MIN_REQUEST_INTERVAL
    THEN MIN_REQUEST_INTERVAL - timeSinceLastRequest ELSE 0

\* a backoff that does not grow
backoffDelayFlat(attempt, jitter) == 1000 + jitter

\* Math.pow(2, attempt) * 1000 + Math.random() * 500
backoffDelay(attempt, jitter) == (2 ^ attempt) * 1000 + jitter

\* the retry loop with one attempt fewer
retriesTwoAttempts(kind, attempt, outcome) ==
    /\ kind = "HTMSheetsService"
    /\ outcome = "quota"
    /\ attempt < maxRetries - 2

\* the retry loop retrying on every error
retriesAnyError(kind, attempt, outcome) ==
    /\ kind = "HTMSheetsService"
    /\ outcome \in {"quota", "error"}
    /\ attempt < maxRetries - 1

\* whether a failed attempt is followed by another one
retries(kind, attempt, outcome) ==
    /\ kind = "HTMSheetsService"
    /\ outcome = "quota"
    /\ attempt < maxRetries - 1

\* what getSheetData returns once it stops on `outcome`
returned(outcome) == IF outcome = "ok" THEN "grid" ELSE "empty"

IdleCall == [pc |-> "idle", attempt |-> 0, sleep |-> 0, delay |-> 0,
             outcomes |-> <<>>, ret |-> "none"]

\* the call `old` moves on to `new`
moved(old, new) == (calls (-) SetToBag({old})) (+) SetToBag({new})

\* the request leaves the client
issue(old, call) ==
    /\ calls' = moved(old, [call EXCEPT !.pc = "inflight", !.sleep = 0,
                                        !.delay = 0])
    /\ sinceIssued' = 0
    /\ minGap' = IF sinceIssued < 0 THEN minGap
                 ELSE IF minGap < 0 \/ sinceIssued < minGap
                      THEN sinceIssued ELSE minGap

\* one iteration of the retry loop up to its first await:
\* throttleRequest() and, when it does not sleep, the request
enterAttempt(old, call) ==
    LET d == IF Throttled(clientKind) THEN throttleDelay(sinceRequest) ELSE 0
    IN IF d > 0
       THEN /\ calls' = moved(old, [call EXCEPT !.pc = "throttle", !.sleep = d,
                                                     !.delay = 0])
            /\ UNCHANGED <<sinceRequest, sinceIssued, minGap>>
       ELSE /\ sinceRequest' = IF Throttled(clientKind) THEN 0 ELSE sinceRequest
            /\ issue(old, call)

\* getSheetData is called
CallGetSheetData ==
    /\ BagIn(IdleCall, calls)
    /\ enterAttempt(IdleCall, IdleCall)
    /\ UNCHANGED <<clientKind, elapses, quotaAnswers,
                     listenerVars, normalizeVars, mergeVars, publishVars,
                   checksumVars, parserVars, serviceVars>>

\* the throttle's setTimeout fires: lastRequestTime = Date.now(), then the request
ThrottleWake ==
    \E call \in BagToSet(calls) :
        /\ call.pc = "throttle"
        /\ call.sleep = 0
        /\ sinceRequest' = 0
        /\ issue(call, call)
        /\ UNCHANGED <<clientKind, elapses, quotaAnswers,
                     listenerVars, normalizeVars, mergeVars, publishVars,
                   checksumVars, parserVars, serviceVars>>

\* the upstream answers the request in flight
Respond ==
    \E call \in BagToSet(calls), outcome \in Outcomes, jitter \in JitterSamples :
        LET seen == Append(call.outcomes, outcome)
            d == backoffDelay(call.attempt, jitter)
        IN /\ call.pc = "inflight"
           /\ outcome = "quota" => quotaAnswers < MaxQuota
           /\ quotaAnswers' = IF outcome = "quota" THEN quotaAnswers + 1
                                                   ELSE quotaAnswers
           /\ calls' = moved(call,
                 IF retries(clientKind, call.attempt, outcome)
                 THEN [call EXCEPT !.pc = "backoff", !.sleep = d,
                                   !.delay = d, !.outcomes = seen]
                 ELSE [call EXCEPT !.pc = "done", !.outcomes = seen,
                                   !.ret = returned(outcome)])
           /\ UNCHANGED <<clientKind, sinceRequest, sinceIssued, minGap, elapses,
                     listenerVars, normalizeVars, mergeVars, publishVars,
                   checksumVars, parserVars, serviceVars>>

\* the backoff's setTimeout fires: `continue`, the next iteration starts
BackoffWake ==
    \E call \in BagToSet(calls) :
        /\ call.pc = "backoff"
        /\ call.sleep = 0
        /\ enterAttempt(call, [call EXCEPT !.attempt = @ + 1])
        /\ UNCHANGED <<clientKind, elapses, quotaAnswers,
                     listenerVars, normalizeVars, mergeVars, publishVars,
                   checksumVars, parserVars, serviceVars>>

Sleeping(call) == call.pc \in {"throttle", "backoff"}
Sleeps == {call.sleep : call \in {x \in BagToSet(calls) : Sleeping(x)}}

\* the call d milliseconds later
later(call, d) == IF Sleeping(call) THEN [call EXCEPT !.sleep = @ - d] ELSE call

\* d milliseconds pass for every clock and every pending timer
pass(d) ==
    /\ calls' = [x \in {later(call, d) : call \in BagToSet(calls)} |->
                    calls[later(x, 0 - d)]]
    /\ sinceRequest' = Saturate(sinceRequest + d)
    /\ sinceIssued' = IF sinceIssued < 0 THEN sinceIssued
                                         ELSE Saturate(sinceIssued + d)

\* time passes up to the next timer
AdvanceToTimer ==
    /\ Sleeps # {}
    /\ Min(Sleeps) > 0
    /\ pass(Min(Sleeps))
    /\ UNCHANGED <<clientKind, minGap, elapses, quotaAnswers,
                     listenerVars, normalizeVars, mergeVars, publishVars,
                   checksumVars, parserVars, serviceVars>>

\* time passes while no timer is due
Elapse ==
    /\ elapses < MaxElapses
    /\ \A w \in Sleeps : ElapseMs <= w /\ w > 0
    /\ pass(ElapseMs)
    /\ elapses' = elapses + 1
    /\ UNCHANGED <<clientKind, minGap, quotaAnswers,
                     listenerVars, normalizeVars, mergeVars, publishVars,
                   checksumVars, parserVars, serviceVars>>

\* the client just constructed, of one of `kinds`
constructedClient(kinds) ==
    /\ clientKind \in kinds
    /\ sinceRequest = MIN_REQUEST_INTERVAL
    /\ calls = [x \in {IdleCall} |-> NumCallers]
    /\ sinceIssued = -1
    /\ minGap = -1
    /\ elapses = 0
    /\ quotaAnswers = 0

FetchNext ==
    \/ CallGetSheetData
    \/ ThrottleWake
    \/ Respond
    \/ BackoffWake
    \/ AdvanceToTimer
    \/ Elapse

(***************************************************************************)
(* Sheet-family listeners.  One instance is one listener of one process;   *)
(* its kind is fixed at construction.  The entities are two keys, visited  *)
(* in the fixed order KeyOrder; the data of an entity is one opaque value. *)
(***************************************************************************)
ListenerKinds == {"HTM", "CD", "CenterTV", "CDProduct", "QSL", "Legacy"}
KeyOrder == <<"k1", "k2">>
Keys == {KeyOrder[i] : i \in 1..Len(KeyOrder)}
Values == {"a", "b"}
Slots == 1..MaxOverlap

\* the listeners that read the whole sheet in one fetch
ListFetch(kind) == kind \in {"CD", "Legacy"}

\* the listeners that publish each event as soon as the entity is compared
InlineEmit(kind) == kind \in {"CDProduct", "QSL"}

\* the listeners that can be asked for a manual check
HasManualCheck(kind) == kind \in {"HTM", "CDProduct", "QSL"}

\* the minimum time between the starts of two scheduled cycles
minSpacing(kind) ==
    CASE kind \in {"HTM", "CD", "CenterTV"} -> 90000
      [] kind \in {"CDProduct", "QSL"} -> 60000
      [] OTHER -> 240000

\* no handler calls isInActiveProductionBlock
checksWindowNever(kind) == FALSE

\* the handlers that call isInActiveProductionBlock, and the others
checksWindow(kind) == kind \in {"CenterTV", "CDProduct", "QSL", "Legacy"}

hourOf(t) == (t \div 3600000) % 24
minutesOf(t) == (t \div 60000) % 1440

\* activeBlocks of the listener, as minutes after midnight
activeBlocks(kind) ==
    LET base == {510, 570, 630, 690, 810, 870, 930, 990, 1080, 1140, 1200}
    IN IF kind = "HTM"
       THEN base \cup {540, 600, 660, 720, 840, 900, 960, 1020, 1110, 1170, 1230}
       ELSE base

\* isInActiveProductionBlock of the listener
isInActiveProductionBlock(kind, t) ==
    CASE kind = "CDProduct" -> ~(hourOf(t) < 7 \/ hourOf(t) >= 21)
      [] kind = "QSL" -> hourOf(t) >= 7 /\ hourOf(t) <= 21
      [] OTHER -> \E start \in activeBlocks(kind) :
                      minutesOf(t) >= start /\ minutesOf(t) < start + 30

\* the first opening of the window, in milliseconds after midnight
opening(kind) == IF kind \in {"CDProduct", "QSL"} THEN 7 * 3600000
                                                  ELSE 510 * 60000

\* a fingerprint that ignores the monitored fields
calculateChecksumConstant(data) == IF data = "empty" THEN "" ELSE "b64:"

\* calculateChecksum: the serialized monitored fields; the QSL response
\* without teams serializes to the empty string
calculateChecksum(data) == IF data = "empty" THEN "" ELSE "b64:" \o data

\* what the listener's service hands over for one entity: the data, or "none"
\* (null, no rows, no groups); the QSL service answers an empty response
delivered(kind, data) == IF kind = "QSL" /\ data = "none" THEN "empty" ELSE data

Entry(data) == [data |-> data, checksum |-> calculateChecksum(data)]

IdleCycle == [pc |-> "idle", trigger |-> "none", startedAt |-> 0, sincePrev |-> -1,
              todo |-> <<>>, key |-> "none", cur |-> "none", prevSum |-> "none",
              processed |-> 0, list |-> [k \in Keys |-> "none"],
              changes |-> <<>>, events |-> <<>>, summary |-> <<>>,
              fetched |-> [k \in Keys |-> "unfetched"],
              reads |-> [k \in Keys |-> "unread"], wrote |-> {},
              enumerated |-> {}, snapshot |-> <<>>, issuedAt |-> 0,
              at |-> 0, visited |-> <<>>]

SelectSeq2(seq, Test(_)) == SelectSeq(seq, Test)
KeysIn(f) == SelectSeq2(KeyOrder, LAMBDA k : k \in f)

Pos(k) == CHOOSE i \in 1..Len(KeyOrder) : KeyOrder[i] = k

\* the listeners whose loops iterate over the previousData Map itself
IteratesMap(kind) == kind \in {"HTM", "CD", "Legacy"}

\* the keys of an entry list, in insertion order
KeysOf(ents) == SelectSeq2(ents, LAMBDA x : x # "empty")

\* the entry list of the Map once its content has become `after`: an entry
\* whose key is gone is emptied (delete, clear), a key that is set again
\* keeps its entry, a key that was not there is appended.  Only a suspended
\* iterator (HTM) can tell an emptied entry from a removed one.
synced(kind, ents, after) ==
    LET kept == [n \in DOMAIN ents |-> IF ents[n] \in DOMAIN after THEN ents[n]
                                                                  ELSE "empty"]
        fresh == KeysIn(DOMAIN after \ {ents[n] : n \in DOMAIN ents})
    IN IF ~IteratesMap(kind) THEN <<>>
       ELSE IF kind = "HTM" THEN kept \o fresh
       ELSE KeysOf(kept) \o fresh

\* the entities of a fetched list, in sheet order
Present(list) == SelectSeq2(KeyOrder, LAMBDA k : list[k] # "none")

\* the fingerprints compare as different whatever they are
differsAlways(stored, sum) == TRUE

\* previousRecord.checksum !== currentChecksum
differs(stored, sum) == stored # sum

\* previousData.set(key, entry)
put(prev, k, entry) ==
    [x \in DOMAIN prev \cup {k} |-> IF x = k THEN entry ELSE prev[x]]

\* a delete that removes nothing
withoutNothing(prev, k) == prev

\* previousData.delete(key)
without(prev, k) == [x \in DOMAIN prev \ {k} |-> prev[x]]

\* the diff of one entity: compare with the stored fingerprint, push or
\* publish the change, replace the snapshot entry.  The HTM loop compares with
\* the entry it took from the iterator before the fetch.
compared(kind, c, prev, k, data) ==
    LET sum == calculateChecksum(data)
        stored == IF kind = "HTM" THEN c.prevSum
                  ELSE IF k \in DOMAIN prev THEN prev[k].checksum ELSE "none"
        type == IF stored = "none" THEN "new"
                ELSE IF differs(stored, sum) THEN "updated" ELSE "same"
        change == [type |-> type, key |-> k, data |-> data]
        seen == [c EXCEPT !.reads[k] = stored, !.visited = Append(@, k)]
    IN IF type = "same"
       THEN [c |-> seen, prev |-> prev]
       ELSE [c |-> IF InlineEmit(kind)
                   THEN [seen EXCEPT !.events = Append(@, change),
                                     !.wrote = @ \cup {k}]
                   ELSE [seen EXCEPT !.changes = Append(@, change),
                                     !.wrote = @ \cup {k}],
             prev |-> put(prev, k, Entry(data))]

\* the deletion pass of a whole-sheet cycle over the keys in `left`
RECURSIVE deleted(_, _, _)
deleted(c, prev, left) ==
    IF left = <<>> THEN [c |-> c, prev |-> prev]
    ELSE LET k == Head(left)
             seen == [c EXCEPT !.visited = Append(@, k)]
         IN IF c.list[k] = "none"
            THEN deleted([seen EXCEPT !.changes = Append(@,
                              [type |-> "deleted", key |-> k, data |-> prev[k].data]),
                                      !.wrote = @ \cup {k}],
                         without(prev, k), Tail(left))
            ELSE deleted(seen, prev, Tail(left))

\* the summary published once the events are out, for n changes
summaryAlways(kind, n) == <<n>>

\* the summary published once the events are out, for n changes
summaryOf(kind, n) == IF InlineEmit(kind) \/ n = 0 THEN <<>> ELSE <<n>>

\* the end of a cycle with a deletion pass whatever the listener
finishDeleting(kind, c, prev) ==
    LET d == deleted(c, prev, KeysIn(DOMAIN prev))
        out == IF InlineEmit(kind) THEN d.c.events ELSE d.c.changes
    IN [c |-> [d.c EXCEPT !.pc = "done", !.events = out, !.changes = <<>>,
                          !.summary = summaryOf(kind, Len(d.c.changes))],
        prev |-> d.prev]

\* the sequence s backwards
RECURSIVE Reversed(_)
Reversed(s) == IF s = <<>> THEN <<>> ELSE Append(Reversed(Tail(s)), Head(s))

\* the end of a cycle publishing the changes from the last one to the first
finishBackwards(kind, c, prev) ==
    LET d == IF ListFetch(kind)
             THEN deleted(c, prev, KeysOf(synced(kind, entries, prev)))
             ELSE [c |-> c, prev |-> prev]
        out == IF InlineEmit(kind) THEN d.c.events ELSE Reversed(d.c.changes)
    IN [c |-> [d.c EXCEPT !.pc = "done", !.events = out, !.changes = <<>>,
                          !.summary = summaryOf(kind, Len(d.c.changes))],
        prev |-> d.prev]

\* the end of a cycle that drops the changes it has collected
finishUnpublished(kind, c, prev) ==
    LET d == IF ListFetch(kind)
             THEN deleted(c, prev, KeysOf(synced(kind, entries, prev)))
             ELSE [c |-> c, prev |-> prev]
    IN [c |-> [d.c EXCEPT !.pc = "done", !.changes = <<>>,
                          !.summary = summaryOf(kind, Len(d.c.changes))],
        prev |-> d.prev]

\* the end of a cycle: deletion pass (whole-sheet listeners), the events,
\* the summary
finish(kind, c, prev) ==
    LET d == IF ListFetch(kind)
             THEN deleted(c, prev, KeysOf(synced(kind, entries, prev)))
                                ELSE [c |-> c, prev |-> prev]
        out == IF InlineEmit(kind) THEN d.c.events ELSE d.c.changes
    IN [c |-> [d.c EXCEPT !.pc = "done", !.events = out, !.changes = <<>>,
                          !.summary = summaryOf(kind, Len(d.c.changes))],
        prev |-> d.prev]

\* CD: the records of the list one after the other without a delay
RECURSIVE cdRecordUnpaced(_, _)
cdRecordUnpaced(c, prev) ==
    LET k == Head(c.todo)
        r == compared("CD", c, prev, k, c.list[k])
        c2 == [r.c EXCEPT !.processed = @ + 1, !.todo = Tail(@)]
    IN IF c2.todo # <<>> THEN cdRecordUnpaced(c2, r.prev)
       ELSE finish("CD", c2, r.prev)

\* CD: one record of the list, then the pacing delay, also after the last
cdRecordPacedLast(c, prev) ==
    IF c.todo = <<>> THEN finish("CD", c, prev)
    ELSE LET k == Head(c.todo)
             r == compared("CD", c, prev, k, c.list[k])
         IN [c |-> [r.c EXCEPT !.processed = @ + 1, !.todo = Tail(@),
                               !.pc = "pace"],
             prev |-> r.prev]

\* CD: one record of the list, then the pacing delay unless it was the last
cdRecord(c, prev) ==
    LET k == Head(c.todo)
        r == compared("CD", c, prev, k, c.list[k])
        c2 == [r.c EXCEPT !.processed = @ + 1, !.todo = Tail(@)]
    IN IF c2.processed < Len(Present(c.list))
       THEN [c |-> [c2 EXCEPT !.pc = "pace"], prev |-> r.prev]
       ELSE finish("CD", c2, r.prev)

\* Legacy: the whole list without a suspension
RECURSIVE legacyLoop(_, _)
legacyLoop(c, prev) ==
    IF c.todo = <<>> THEN finish("Legacy", c, prev)
    ELSE LET k == Head(c.todo)
             r == compared("Legacy", c, prev, k, c.list[k])
         IN legacyLoop([r.c EXCEPT !.todo = Tail(@)], r.prev)

\* the whole-sheet fetch has returned `list`
listFetched(kind, c, prev, list) ==
    LET c1 == [c EXCEPT !.list = list, !.fetched = list, !.todo = Present(list),
                        !.enumerated = {k \in Keys : list[k] # "none"}]
    IN IF kind = "CD"
       THEN IF Present(list) = <<>>
            THEN [c |-> [c1 EXCEPT !.pc = "done"], prev |-> prev]
            ELSE cdRecord(c1, prev)
       ELSE legacyLoop(c1, prev)

\* HTM: the position of the entry the Map iterator yields after the one at
\* position `at`, 0 when there is none left
nextEntry(ents, at) ==
    LET ahead == {n \in DOMAIN ents : n > at /\ ents[n] # "empty"}
    IN IF ahead = {} THEN 0 ELSE Min(ahead)

\* HTM: the iterator yields the entry at position n; the fetch is issued
visit(c, prev, ents, n) ==
    [c EXCEPT !.pc = "fetchKey", !.key = ents[n], !.at = n, !.cur = "none",
              !.prevSum = prev[ents[n]].checksum, !.issuedAt = now]

\* HTM: the part of one iteration after the pacing delay
htmCompare(c, prev) ==
    LET r == IF c.cur = "none" THEN [c |-> c, prev |-> prev]
             ELSE compared("HTM", c, prev, c.key, c.cur)
        ents == synced("HTM", entries, r.prev)
        n == nextEntry(ents, c.at)
    IN IF n = 0 THEN finish("HTM", r.c, r.prev)
       ELSE [c |-> visit(r.c, r.prev, ents, n), prev |-> r.prev]

\* the fetch of one entity has returned `data`; a fetch without data ends
\* the cycle
keyFetchedAborting(kind, c, prev, data) ==
    LET got == delivered(kind, data)
        c1 == [c EXCEPT !.fetched[c.key] = data, !.cur = got,
                        !.processed = @ + 1]
    IN IF got = "none" THEN [c |-> [c1 EXCEPT !.pc = "done"], prev |-> prev]
       ELSE IF kind = "HTM"
       THEN IF c1.processed < Cardinality(DOMAIN prev)
            THEN [c |-> [c1 EXCEPT !.pc = "pace"], prev |-> prev]
            ELSE htmCompare(c1, prev)
       ELSE LET r == compared(kind, c1, prev, c.key, got)
            IN IF c.todo = <<>> THEN finish(kind, r.c, r.prev)
               ELSE [c |-> [r.c EXCEPT !.key = Head(c.todo), !.cur = "none",
                                       !.todo = Tail(c.todo), !.issuedAt = now],
                     prev |-> r.prev]

\* the fetch of one entity has returned `data`
keyFetched(kind, c, prev, data) ==
    LET got == delivered(kind, data)
        c1 == [c EXCEPT !.fetched[c.key] = data, !.cur = got,
                        !.processed = @ + 1]
    IN IF kind = "HTM"
       THEN IF c1.processed < Cardinality(DOMAIN prev)
            THEN [c |-> [c1 EXCEPT !.pc = "pace"], prev |-> prev]
            ELSE htmCompare(c1, prev)
       ELSE LET r == IF got = "none" THEN [c |-> c1, prev |-> prev]
                     ELSE compared(kind, c1, prev, c.key, got)
            IN IF c.todo = <<>> THEN finish(kind, r.c, r.prev)
               ELSE [c |-> [r.c EXCEPT !.key = Head(c.todo), !.cur = "none",
                                       !.todo = Tail(c.todo), !.issuedAt = now],
                     prev |-> r.prev]

\* the cycle as it stands when performCheck reaches its first await
begun(kind, trigger, prev) ==
    LET base == [IdleCycle EXCEPT !.trigger = trigger, !.startedAt = now,
                     !.snapshot = prev, !.issuedAt = now,
                     !.sincePrev = IF lastStart < 0 THEN -1 ELSE now - lastStart]
    IN CASE ListFetch(kind) -> [base EXCEPT !.pc = "fetchList"]
         [] kind = "HTM" ->
              IF DOMAIN prev = {} THEN [base EXCEPT !.pc = "done"]
              ELSE visit([base EXCEPT !.enumerated = DOMAIN prev], prev,
                         entries, nextEntry(entries, 0))
         [] OTHER -> [base EXCEPT !.pc = "fetchKey", !.key = Head(KeyOrder),
                                  !.todo = Tail(KeyOrder), !.enumerated = Keys]

\* the gate of checkForChanges: too soon after lastCheckTime
gateClosed(kind, t, last) ==
    IF kind \in {"CDProduct", "QSL"}
    THEN t - last < minSpacing(kind)
    ELSE last # 0 /\ t - last < minSpacing(kind)

\* what a scheduler trigger does at time t
triggered(kind, t) ==
    IF ~isListening THEN "stopped"
    ELSE IF checksWindow(kind) /\ ~isInActiveProductionBlock(kind, t) THEN "outside"
    ELSE IF gateClosed(kind, t, lastCheckTime) THEN "gated"
    ELSE "started"

Settled == \A i \in Slots : cycles[i].pc # "done"
FreeSlots == {i \in Slots : cycles[i].pc = "idle"}
Open == {i \in Slots : cycles[i].pc \notin {"idle", "done"}}

\* the cycle c runs in the lowest free slot
opened(c) == [cycles EXCEPT ![Min(FreeSlots)] = c]

\* the keys whose snapshot entry the step from cycle `old` to `new` wrote
\* carry the time at which the fetch behind the write was issued
stamped(old, new) ==
    [k \in Keys |-> IF k \in new.wrote \ old.wrote THEN old.issuedAt
                                                     ELSE origin[k]]

\* checkForChanges, called by the scheduler, up to its first await
CheckForChanges ==
    LET result == triggered(listenerKind, now)
    IN /\ Settled
       /\ lastTrigger' = result
       /\ lastTrigger' # lastTrigger
       /\ IF result = "started"
          THEN /\ budget.cycles < MaxCycles
               /\ FreeSlots # {}
               /\ lastCheckTime' = now
               /\ cycles' = opened(begun(listenerKind, "cron", previousData))
               /\ lastStart' = now
               /\ budget' = [budget EXCEPT !.cycles = @ + 1]
          ELSE UNCHANGED <<lastCheckTime, cycles, lastStart, budget>>
       /\ UNCHANGED <<listenerKind, origin, entries, now, isListening, previousData, upstream,
                      fetchVars, normalizeVars, mergeVars, publishVars,
                   checksumVars, parserVars, serviceVars>>

\* manualCheckForChanges, up to its first await
ManualCheckForChanges ==
    /\ Settled
    /\ HasManualCheck(listenerKind)
    /\ listenerKind = "HTM" => isListening
    /\ budget.cycles < MaxCycles
    /\ budget.events < MaxEvents
    /\ FreeSlots # {}
    /\ lastCheckTime' = IF listenerKind = "HTM" THEN 0 ELSE lastCheckTime
    /\ cycles' = opened(begun(listenerKind, "manual", previousData))
    /\ lastStart' = now
    /\ budget' = [budget EXCEPT !.cycles = @ + 1, !.events = @ + 1]
    /\ UNCHANGED <<listenerKind, origin, entries, now, isListening, previousData, upstream,
                   lastTrigger, fetchVars, normalizeVars, mergeVars, publishVars,
                   checksumVars, parserVars, serviceVars>>

\* the answers a fetch may get: the sheet as it is, or nothing when it fails
Answers(whole) == {[failed |-> FALSE, data |-> whole]} \cup
    IF budget.events < MaxEvents
    THEN {[failed |-> TRUE, data |-> "none"]} ELSE {}

\* the whole-sheet fetch of a cycle returns
FetchListReturn(i) ==
    /\ Settled
    /\ cycles[i].pc = "fetchList"
    /\ \E ans \in Answers("sheet") :
         LET list == IF ans.failed THEN [k \in Keys |-> "none"] ELSE upstream
             r == listFetched(listenerKind, cycles[i], previousData, list)
         IN /\ cycles' = [cycles EXCEPT ![i] = r.c]
            /\ previousData' = r.prev
            /\ entries' = synced(listenerKind, entries, previousData')
            /\ origin' = stamped(cycles[i], r.c)
            /\ budget' = IF ans.failed THEN [budget EXCEPT !.events = @ + 1]
                                       ELSE budget
    /\ UNCHANGED <<listenerKind, now, isListening, lastCheckTime, upstream,
                   lastStart, lastTrigger, fetchVars, normalizeVars, mergeVars, publishVars,
                   checksumVars, parserVars, serviceVars>>

\* the fetch of one entity returns
FetchKeyReturn(i) ==
    /\ Settled
    /\ cycles[i].pc = "fetchKey"
    /\ \E ans \in Answers(upstream[cycles[i].key]) :
         LET r == keyFetched(listenerKind, cycles[i], previousData, ans.data)
         IN /\ cycles' = [cycles EXCEPT ![i] = r.c]
            /\ previousData' = r.prev
            /\ entries' = synced(listenerKind, entries, previousData')
            /\ origin' = stamped(cycles[i], r.c)
            /\ budget' = IF ans.failed THEN [budget EXCEPT !.events = @ + 1]
                                       ELSE budget
    /\ UNCHANGED <<listenerKind, now, isListening, lastCheckTime, upstream,
                   lastStart, lastTrigger, fetchVars, normalizeVars, mergeVars, publishVars,
                   checksumVars, parserVars, serviceVars>>

\* the pacing delay of a cycle ends
PaceReturn(i) ==
    /\ Settled
    /\ cycles[i].pc = "pace"
    /\ LET r == IF listenerKind = "HTM" THEN htmCompare(cycles[i], previousData)
                                        ELSE cdRecord(cycles[i], previousData)
       IN /\ cycles' = [cycles EXCEPT ![i] = r.c]
          /\ previousData' = r.prev
          /\ entries' = synced(listenerKind, entries, previousData')
          /\ origin' = stamped(cycles[i], r.c)
    /\ UNCHANGED <<listenerKind, now, isListening, lastCheckTime, upstream,
                   lastStart, lastTrigger, budget, fetchVars, normalizeVars, mergeVars, publishVars,
                   checksumVars, parserVars, serviceVars>>

\* a finished cycle is forgotten, before anything else happens
Retire(i) ==
    /\ cycles[i].pc = "done"
    /\ cycles' = [cycles EXCEPT ![i] = IdleCycle]
    /\ UNCHANGED <<listenerKind, origin, entries, now, isListening, lastCheckTime, previousData,
                   upstream, lastStart, lastTrigger, budget, fetchVars, normalizeVars, mergeVars, publishVars,
                   checksumVars, parserVars, serviceVars>>

\* a variant of alreadyLoaded that never finds the key
alreadyLoadedNever(prev, k) == FALSE

\* loadLineData's early return: the key is in the snapshot
alreadyLoaded(prev, k) == k \in DOMAIN prev

\* loadLineData (HTM), up to its await: nothing to do for a tracked key
LoadLineData(k) ==
    /\ Settled
    /\ listenerKind = "HTM"
    /\ budget.events < MaxEvents
    /\ FreeSlots # {}
    /\ budget' = [budget EXCEPT !.events = @ + 1]
    /\ cycles' = IF alreadyLoaded(previousData, k) THEN cycles
                 ELSE opened([IdleCycle EXCEPT !.pc = "loadKey", !.key = k,
                                               !.trigger = "load",
                                               !.startedAt = now,
                                               !.issuedAt = now])
    /\ UNCHANGED <<listenerKind, origin, entries, now, isListening, lastCheckTime, previousData,
                   upstream, lastStart, lastTrigger, fetchVars, normalizeVars, mergeVars, publishVars,
                   checksumVars, parserVars, serviceVars>>

\* loadLineData, after its await: the entry is stored if there is data
LoadLineReturn(i) ==
    /\ Settled
    /\ cycles[i].pc = "loadKey"
    /\ \E ans \in Answers(upstream[cycles[i].key]) :
         /\ previousData' = IF ans.data = "none" THEN previousData
                            ELSE put(previousData, cycles[i].key, Entry(ans.data))
         /\ entries' = synced(listenerKind, entries, previousData')
         /\ origin' = IF ans.data = "none" THEN origin
                      ELSE [origin EXCEPT ![cycles[i].key] = cycles[i].issuedAt]
         /\ budget' = IF ans.failed THEN [budget EXCEPT !.events = @ + 1]
                                    ELSE budget
    /\ cycles' = [cycles EXCEPT ![i] = IdleCycle]
    /\ UNCHANGED <<listenerKind, now, isListening, lastCheckTime, upstream,
                   lastStart, lastTrigger, fetchVars, normalizeVars, mergeVars, publishVars,
                   checksumVars, parserVars, serviceVars>>

\* stopRealtimeMonitoring
StopRealtimeMonitoring ==
    /\ Settled
    /\ isListening
    /\ isListening' = FALSE
    /\ previousData' = IF listenerKind = "CDProduct" THEN previousData ELSE <<>>
    /\ entries' = synced(listenerKind, entries, previousData')
    /\ UNCHANGED <<listenerKind, origin, now, lastCheckTime, upstream, cycles, lastStart,
                   lastTrigger, budget, fetchVars, normalizeVars, mergeVars, publishVars,
                   checksumVars, parserVars, serviceVars>>

\* somebody edits the sheet
UpstreamChange ==
    /\ Settled
    /\ budget.events < MaxEvents
    /\ \E k \in Keys, v \in Values \cup {"none"} :
         /\ v # upstream[k]
         /\ upstream' = [upstream EXCEPT ![k] = v]
    /\ budget' = [budget EXCEPT !.events = @ + 1]
    /\ UNCHANGED <<listenerKind, origin, entries, now, isListening, lastCheckTime, previousData,
                   cycles, lastStart, lastTrigger, fetchVars, normalizeVars, mergeVars, publishVars,
                   checksumVars, parserVars, serviceVars>>

\* wall-clock time passes
Tick ==
    /\ Settled
    /\ budget.ticks < MaxTicks
    /\ now' = now + TickMs
    /\ lastTrigger' = "none"
    /\ budget' = [budget EXCEPT !.ticks = @ + 1]
    /\ UNCHANGED <<listenerKind, origin, entries, isListening, lastCheckTime, previousData,
                   upstream, cycles, lastStart, fetchVars, normalizeVars, mergeVars, publishVars,
                   checksumVars, parserVars, serviceVars>>

\* the snapshot loadInitialData leaves behind when its fetch returned `list`
loaded(kind, list) ==
    CASE kind = "HTM" -> <<>>
      [] kind = "QSL" -> [k \in Keys |-> Entry(delivered(kind, list[k]))]
      [] OTHER -> [k \in {x \in Keys : list[x] # "none"} |-> Entry(list[k])]

\* the listener of one of `kinds` once startRealtimeMonitoring has returned
startedListener(kinds) ==
    /\ listenerKind \in kinds
    /\ now = 86400000 + opening(listenerKind) - TickMs
    /\ isListening = TRUE
    /\ lastCheckTime = 0
    /\ origin = [k \in Keys |-> 0]
    /\ upstream \in {[k \in Keys |-> IF k = "k1" THEN "a" ELSE v] :
                       v \in IF listenerKind = "HTM" THEN {"none", "a"}
                                                     ELSE {"none"}}
    /\ \E ok \in BOOLEAN :
         previousData = loaded(listenerKind,
                               IF ok THEN upstream ELSE [k \in Keys |-> "none"])
    /\ entries = synced(listenerKind, <<>>, previousData)
    /\ cycles = [i \in Slots |-> IdleCycle]
    /\ lastStart = -1
    /\ lastTrigger = "none"
    /\ budget = [cycles |-> 0, ticks |-> 0, events |-> 0]

ListenerNext ==
    \/ CheckForChanges
    \/ ManualCheckForChanges
    \/ \E i \in Slots : FetchListReturn(i)
    \/ \E i \in Slots : FetchKeyReturn(i)
    \/ \E i \in Slots : PaceReturn(i)
    \/ \E i \in Slots : Retire(i)
    \/ \E k \in Keys : LoadLineData(k)
    \/ \E i \in Slots : LoadLineReturn(i)
    \/ StopRealtimeMonitoring
    \/ UpstreamChange
    \/ Tick

(***************************************************************************)
(* CDSheetsService.getProductionData: grouping of the DATA_CD rows into    *)
(* one parent row and its sub-rows per line code.  A row is its column A   *)
(* (code) and its column C (line field); rows are numbered from 0 as in    *)
(* the code, and a group keeps the numbers of the rows it holds.           *)
(***************************************************************************)
\* factoryLineCodeMap for factory ALL
targetLineCodes ==
    {"KVHB07CD16", "KVHB07CD17", "KVHB07CD18", "KVHB07CD19",
     "KVHB07CD20", "KVHB07CD21", "KVHB07CD22", "KVHB07CD23",
     "KVHB07CD24", "KVHB07CD25", "KVHB07CD26", "KVHB07CD27"}

\* lineRowCount[code] || 5: the parent row and its sub-rows
lineRowCount(code) ==
    IF code \in {"KVHB07CD16", "KVHB07CD17", "KVHB07CD24", "KVHB07CD25"}
    THEN 11 ELSE 5

\* the rows a DATA_CD grid is made of: the parent rows of two lines, a team
\* row, a blank row
ParentRows == {[code |-> "KVHB07CD18", line |-> "LINE 3"],
               [code |-> "KVHB07CD19", line |-> "LINE 4"]}
GridRows == ParentRows \cup {[code |-> "", line |-> "TEAM"],
                             [code |-> "", line |-> ""]}
Grids == UNION {[1..n -> GridRows] : n \in 0..MaxRows}

\* lineField && lineField.startsWith('LINE')
startsWithLINE(lineField) == lineField \in {"LINE 3", "LINE 4"}

\* subCode.startsWith('KVHB07CD')
startsWithCD(code) == code \in targetLineCodes

\* the test that detects a parent row
isParentRow(row) ==
    /\ row.code # ""
    /\ startsWithLINE(row.line)
    /\ row.code \in targetLineCodes

\* the test that stops the collection of sub-rows
hitsNextParent(subRow) == subRow.code # "" /\ startsWithCD(subRow.code)

\* the collection loop from j on, for the parent at row i: the rows pushed to
\* teamRows, and whether it stopped at a parent
RECURSIVE collect(_, _, _, _)
collect(rows, i, j, subRowCount) ==
    IF ~(j <= subRowCount /\ i + j < Len(rows))
    THEN [teamRows |-> <<>>, early |-> FALSE]
    ELSE IF hitsNextParent(rows[i + j + 1])
         THEN [teamRows |-> <<>>, early |-> TRUE]
         ELSE LET rest == collect(rows, i, j + 1, subRowCount)
              IN [teamRows |-> <<i + j>> \o rest.teamRows, early |-> rest.early]

\* one iteration of the while loop on a parent row: collect, cdGroups.set,
\* i += totalRows
ParentRow ==
    /\ ~normalized
    /\ scanIndex < Len(dataRows)
    /\ isParentRow(dataRows[scanIndex + 1])
    /\ LET code == dataRows[scanIndex + 1].code
           totalRows == lineRowCount(code)
           got == collect(dataRows, scanIndex, 1, totalRows - 1)
       IN /\ cdGroups' = put(cdGroups, code, [parentRow |-> scanIndex,
                                              teamRows |-> got.teamRows])
          /\ mismatches' = IF got.early
                           THEN mismatches \cup {[type |-> "warn", code |-> code]}
                           ELSE mismatches
          /\ scanIndex' = scanIndex + totalRows
    /\ UNCHANGED <<dataRows, normalized, fetchVars, listenerVars, mergeVars, publishVars,
                   checksumVars, parserVars, serviceVars>>

\* one iteration of the while loop on any other row: i++
OtherRow ==
    /\ ~normalized
    /\ scanIndex < Len(dataRows)
    /\ ~isParentRow(dataRows[scanIndex + 1])
    /\ scanIndex' = scanIndex + 1
    /\ UNCHANGED <<dataRows, cdGroups, mismatches, normalized, fetchVars,
                   listenerVars, mergeVars, publishVars,
                   checksumVars, parserVars, serviceVars>>

\* the verification pass: an error for every group whose number of sub-rows
\* is not the configured one
short(groups) ==
    {[type |-> "error", code |-> c] :
        c \in {x \in DOMAIN groups :
                  Len(groups[x].teamRows) # lineRowCount(x) - 1}}

\* the loop is over: the verification pass logs every group that is short
Verify ==
    /\ ~normalized
    /\ scanIndex >= Len(dataRows)
    /\ mismatches' = mismatches \cup short(cdGroups)
    /\ normalized' = TRUE
    /\ UNCHANGED <<dataRows, scanIndex, cdGroups, fetchVars, listenerVars, mergeVars, publishVars,
                   checksumVars, parserVars, serviceVars>>

\* getProductionData is called on one of `grids`
normalizing(grids) ==
    /\ dataRows \in grids
    /\ scanIndex = 0
    /\ cdGroups = <<>>
    /\ mismatches = {}
    /\ normalized = FALSE

NormalizeNext ==
    \/ ParentRow
    \/ OtherRow
    \/ Verify

(***************************************************************************)
(* HTMSheetsService: the wide-row schema.  A DATA BCSL HTM row is its code *)
(* and one production figure (slth); an ENDLINE row is its LINE column,    *)
(* empty when the sheet leaves it to the row above, and one quality figure *)
(* (tongKiem).  getProductionData joins the two grids through the key      *)
(* built from the ENDLINE row; getProductionDataWithEndlineMerge takes the *)
(* base record of the code and the ENDLINE row at the caller's rowIndex.   *)
(***************************************************************************)
Codes == {"KVHB07M01", "KVHB07M02"}
BaseRows == [maChuyenLine : Codes, slth : {100}]
BaseGrids == {g \in UNION {[1..n -> BaseRows] : n \in 0..Cardinality(Codes)} :
                 \A a, b \in DOMAIN g : g[a] = g[b] => a = b}
DetailRows == [line : {"", "LINE 1", "LINE 2"}, tongKiem : {10, 20}]
DetailGrids == UNION {[1..n -> DetailRows] : n \in 0..MaxDetailRows}
Requests == [code : Codes, rowIndex : 0..(MaxDetailRows - 1)]

NoRecord == [maChuyenLine |-> "", slth |-> 0, tongKiem |-> 0, hourly |-> 0,
             rowIndex |-> -1, source |-> "null"]

\* lineValue.match(/\d+/), '1' when there is no digit
extractLineNumber(lineValue) ==
    CASE lineValue = "LINE 1" -> "1"
      [] lineValue = "LINE 2" -> "2"
      [] OTHER -> "1"

\* `KVHB07M${lineNumber.padStart(2, '0')}`
constructMaChuyenLine(line) == "KVHB07M" \o "0" \o extractLineNumber(line)

\* the LINE of row rowIdx (from 0) once the empty cells are filled forward
RECURSIVE filledLine(_, _)
filledLine(rows, rowIdx) ==
    IF rowIdx < 0 THEN ""
    ELSE IF rows[rowIdx + 1].line # "" THEN rows[rowIdx + 1].line
    ELSE filledLine(rows, rowIdx - 1)

\* the key of ENDLINE row rowIdx, "" for a row parseRFTData skips
keyOfRow(rows, rowIdx) ==
    IF filledLine(rows, rowIdx) = "" THEN ""
    ELSE constructMaChuyenLine(filledLine(rows, rowIdx))

\* parseRFTData: key -> the figures of the last row that has the key
parseRFTData(rows) ==
    LET idx == 0..(Len(rows) - 1)
        keyed == {r \in idx : keyOfRow(rows, r) # ""}
        last(k) == CHOOSE r \in keyed :
                      /\ keyOfRow(rows, r) = k
                      /\ \A q \in keyed : keyOfRow(rows, q) = k => q <= r
    IN [k \in {keyOfRow(rows, r) : r \in keyed} |-> rows[last(k) + 1].tongKiem]

\* getProductionData: one record per DATA BCSL HTM row, with the ENDLINE
\* figures found under the record's key
getProductionData(pv, rv) ==
    LET rftDataMap == parseRFTData(rv)
    IN [n \in 1..Len(pv) |->
          [NoRecord EXCEPT !.maChuyenLine = pv[n].maChuyenLine,
                           !.slth = pv[n].slth,
                           !.hourly = IF pv[n].maChuyenLine \in DOMAIN rftDataMap
                                      THEN rftDataMap[pv[n].maChuyenLine] ELSE 0,
                           !.source = "BASE"]]

\* productionData.find(r => r.maChuyenLine === code), NoRecord when none
find(records, code) ==
    LET hits == {n \in 1..Len(records) : records[n].maChuyenLine = code}
    IN IF hits = {} THEN NoRecord ELSE records[Min(hits)]

\* getEndlineDataByRowIndex fails: no rows, or rowIndex out of bounds
noEndline(rv, rowIndex) == Len(rv) = 0 \/ rowIndex < 0 \/ rowIndex >= Len(rv)

\* getProductionDataWithEndlineMerge is called, up to its first await
\* (the call itself changes nothing), and getProductionData answers
MergeBase ==
    /\ merged.pc = "called"
    /\ LET baseRecord == find(getProductionData(productionValues, rftValues),
                              request.code)
       IN merged' = IF baseRecord.source = "null"
                    THEN [pc |-> "done", record |-> NoRecord]
                    ELSE [pc |-> "endline", record |-> baseRecord]
    /\ UNCHANGED <<productionValues, rftValues, request, fetchVars, listenerVars,
                   normalizeVars, publishVars,
                   checksumVars, parserVars, serviceVars>>

\* getEndlineDataByRowIndex answers: the base record alone, or the base
\* record with the figures of the ENDLINE row at rowIndex
MergeEndline ==
    /\ merged.pc = "endline"
    /\ merged' =
         IF noEndline(rftValues, request.rowIndex)
         THEN [merged EXCEPT !.pc = "done"]
         ELSE LET targetRow == rftValues[request.rowIndex + 1]
              IN [pc |-> "done",
                  record |-> [merged.record EXCEPT
                                 !.tongKiem = targetRow.tongKiem,
                                 !.hourly = targetRow.tongKiem,
                                 !.rowIndex = request.rowIndex,
                                 !.source = "MERGED"]]
    /\ UNCHANGED <<productionValues, rftValues, request, fetchVars, listenerVars,
                   normalizeVars, publishVars,
                   checksumVars, parserVars, serviceVars>>

\* the two sheets and a call of getProductionDataWithEndlineMerge
merging(bases, details, requests) ==
    /\ productionValues \in bases
    /\ rftValues \in details
    /\ request \in requests
    /\ merged = [pc |-> "called", record |-> NoRecord]

MergeNext ==
    \/ MergeBase
    \/ MergeEndline

(***************************************************************************)
(* Broadcast: the publishing part of one cycle.  A change is the code of   *)
(* the entity, the factory field of its record (nhaMay, "" when blank)     *)
(* and the type of the change.  A room is a name space and an identifier;  *)
(* `rooms` holds the rooms of sockets.adapter.rooms, those some client has *)
(* joined.  `wire` keeps every emit call made on the server: the call      *)
(* reaches a client when its room is in `rooms` or it goes to all clients. *)
(***************************************************************************)
CodeRoom(code) == [space |-> "production:code", id |-> code]
FactoryRoom(factory) == [space |-> "production:all:all", id |-> factory]
LineRoom(factory) == [space |-> "production:line:team", id |-> factory]
OwnRoom(kind, code) ==
    CASE kind = "CenterTV" -> [space |-> "center-tv", id |-> code]
      [] kind = "QSL" -> [space |-> "qsl-line", id |-> code]
      [] kind = "CDProduct" -> [space |-> "cd-product", id |-> code]
      [] OTHER -> CodeRoom(code)
AllClients(channel) == [space |-> "all clients", id |-> channel]

\* the listeners that publish through WebsocketGateway.emitMaChuyenLineUpdate
ThroughGateway(kind) == kind \in {"HTM", "CD", "Legacy"}

\* the changes a cycle of the listener may have found
ChangesOf(kind) ==
    CASE kind = "HTM" ->
           [code : {"KVHB07M01"}, nhaMay : {"", "TS1"}, type : {"updated"}]
      [] kind = "CD" ->
           [code : {"KVHB07CD16"}, nhaMay : {"", "TS1"}, type : {"new", "deleted"}]
      [] kind = "Legacy" ->
           [code : {"KVHB07M01", "KVHB07M15"}, nhaMay : {"", "TS1"},
            type : {"updated"}]
      [] kind = "CenterTV" ->
           [code : {"TS1_1"}, nhaMay : {"TS1"}, type : {"new", "updated"}]
      [] kind = "QSL" ->
           [code : {"1", "2"}, nhaMay : {""}, type : {"new", "updated"}]
      [] OTHER -> [code : {"CD1"}, nhaMay : {""}, type : {"new", "updated"}]

\* the rooms a client of the listener's displays may have joined
RoomsFor(kind) ==
    {OwnRoom(kind, c.code) : c \in ChangesOf(kind)} \cup
    {FactoryRoom("TS1"), LineRoom("TS1")}

AllRooms == UNION {RoomsFor(kind) : kind \in ListenerKinds}

\* the number after KVHB07M in the code, 0 when the code has another form
lineNumberOf(code) ==
    CASE code = "KVHB07M01" -> 1
      [] code = "KVHB07M15" -> 15
      [] OTHER -> 0

\* WebsocketGateway.extractFactoryFromMaChuyenLine, "" for null
extractFactoryFromMaChuyenLine(code) ==
    LET lineNumber == lineNumberOf(code)
    IN IF lineNumber >= 1 /\ lineNumber <= 14 THEN "TS1"
       ELSE IF lineNumber >= 18 /\ lineNumber <= 24 THEN "TS2"
       ELSE IF lineNumber >= 25 /\ lineNumber <= 38 THEN "TS3"
       ELSE ""

\* maChuyenLine.includes('CD')
includesCD(code) == code \in {"KVHB07CD16", "CD1"}

\* the size read without the guard: -1 stands for the TypeError of reading
\* the size of a room that does not exist
roomSizeUnguarded(joined, room) == IF room \in joined THEN 1 ELSE -1

\* rooms.get(room)?.size || 0
roomSize(joined, room) == IF room \in joined THEN 1 ELSE 0

\* server.to(room).emit(event, payload) / server.emit(channel, payload)
sendTo(s, room, event, change) ==
    [s EXCEPT !.wire = Append(@, [room |-> room, event |-> event,
                                  code |-> change.code, type |-> change.type])]

\* this.logger.<level>(... room ...)
logLine(s, level, room) ==
    [s EXCEPT !.logged = Append(@, [level |-> level, room |-> room])]

thrown(s) == [s EXCEPT !.threw = TRUE]

\* emitMaChuyenLineUpdate that leaves the factory room out
emitMaChuyenLineUpdateOwnRoom(s, joined, change) ==
    LET subscriptionKey == CodeRoom(change.code)
        size == roomSize(joined, subscriptionKey)
        s1 == IF size > 0
              THEN logLine(sendTo(logLine(s, "log", subscriptionKey),
                                  subscriptionKey, "production-update", change),
                           "log", subscriptionKey)
              ELSE logLine(logLine(s, "log", subscriptionKey),
                           "warn", subscriptionKey)
    IN IF includesCD(change.code)
       THEN sendTo(s1, AllClients("cd:" \o change.code), "cd", change)
       ELSE s1

\* WebsocketGateway.emitMaChuyenLineUpdate: the room of the code when it has
\* clients (a warning when it has none), every client for a CD code, the
\* room of the factory the code maps to when it has clients
emitMaChuyenLineUpdate(s, joined, change) ==
    LET subscriptionKey == CodeRoom(change.code)
        size == roomSize(joined, subscriptionKey)
        factory == extractFactoryFromMaChuyenLine(change.code)
        s0 == logLine(s, "log", subscriptionKey)
        s1 == IF size > 0
              THEN logLine(sendTo(s0, subscriptionKey, "production-update", change),
                           "log", subscriptionKey)
              ELSE logLine(s0, "warn", subscriptionKey)
        s2 == IF includesCD(change.code)
              THEN sendTo(s1, AllClients("cd:" \o change.code), "cd", change)
              ELSE s1
    IN IF size < 0 THEN thrown(s)
       ELSE IF factory = "" THEN s2
       ELSE IF roomSize(joined, FactoryRoom(factory)) < 0 THEN thrown(s2)
       ELSE IF roomSize(joined, FactoryRoom(factory)) > 0
       THEN sendTo(s2, FactoryRoom(factory), "production-update", change)
       ELSE s2

\* WebsocketGateway.emitProductionUpdate: the room of the factory, then every
\* other existing room of that factory
emitProductionUpdate(s, joined, factory, change) ==
    LET s1 == sendTo(s, FactoryRoom(factory), "production-update", change)
    IN IF LineRoom(factory) \in joined
       THEN sendTo(s1, LineRoom(factory), "production-update", change)
       ELSE s1

\* emitChange of the listener, for one change
emitChange(kind, s, joined, change) ==
    IF ThroughGateway(kind)
    THEN LET s1 == emitMaChuyenLineUpdate(s, joined, change)
         IN IF s1.threw \/ change.nhaMay = "" THEN s1
            ELSE emitProductionUpdate(s1, joined, change.nhaMay, change)
    ELSE LET roomName == OwnRoom(kind, change.code)
             size == roomSize(joined, roomName)
             s1 == sendTo(logLine(s, "log", roomName), roomName, "update", change)
         IN IF size < 0 THEN thrown(s)
            ELSE IF size = 0
            THEN logLine(s1, IF kind = "CenterTV" THEN "warn" ELSE "debug", roomName)
            ELSE s1

\* the listeners whose loop stops when emitChange throws: the call is awaited
\* with nothing but the handler's own try around it
StopsOnThrow(kind) == kind = "CD"

\* the summary goes out as soon as there is a change
summaryDueAtOnce(kind, left, count) == ~InlineEmit(kind) /\ count > 0

\* whether the summary is due: the loop over the changes is over, and there
\* was a change
summaryDue(kind, left, count) ==
    ~InlineEmit(kind) /\ count > 0 /\ left = <<>>

Summarised == \E n \in DOMAIN wire : wire[n].event = "system-update"

\* the loop over the changes: emitChange for the next one
EmitChange ==
    /\ pubPc = "emitting"
    /\ outbox # <<>>
    /\ LET r == emitChange(emitterKind,
                           [wire |-> wire, logged |-> logged, threw |-> FALSE],
                           rooms, Head(outbox))
       IN /\ wire' = r.wire
          /\ logged' = IF r.threw
                       THEN Append(r.logged, [level |-> "error",
                                              room |-> AllClients("error")])
                       ELSE r.logged
          /\ emitted' = Append(emitted, Head(outbox))
          /\ IF r.threw /\ StopsOnThrow(emitterKind)
             THEN pubPc' = "failed" /\ outbox' = outbox
             ELSE pubPc' = pubPc /\ outbox' = Tail(outbox)
    /\ UNCHANGED <<emitterKind, rooms, fetchVars, listenerVars, normalizeVars,
                   mergeVars, checksumVars, parserVars, serviceVars>>

\* broadcastSystemUpdate: the summary of the cycle, to every client
BroadcastSystemUpdate ==
    /\ pubPc = "emitting"
    /\ ~Summarised
    /\ summaryDue(emitterKind, outbox, Len(emitted) + Len(outbox))
    /\ wire' = Append(wire, [room |-> AllClients("system-update"),
                             event |-> "system-update", code |-> "",
                             type |-> ""])
    /\ pubPc' = IF outbox = <<>> THEN "done" ELSE pubPc
    /\ UNCHANGED <<emitterKind, rooms, outbox, emitted, logged, fetchVars,
                   listenerVars, normalizeVars, mergeVars, checksumVars,
                   parserVars, serviceVars>>

\* the handler returns: no change, or a listener without a summary
Return ==
    /\ pubPc = "emitting"
    /\ outbox = <<>>
    /\ Summarised \/ ~summaryDue(emitterKind, outbox, Len(emitted))
    /\ pubPc' = "done"
    /\ UNCHANGED <<emitterKind, rooms, outbox, emitted, wire, logged, fetchVars,
                   listenerVars, normalizeVars, mergeVars, checksumVars,
                   parserVars, serviceVars>>

\* the cycle of one of `kinds` has found up to maxLen changes, while the
\* clients have joined some of the rooms of the listener's displays
publishing(kinds, maxLen, joinedSets) ==
    /\ emitterKind \in kinds
    /\ rooms \in joinedSets
    /\ rooms \subseteq RoomsFor(emitterKind)
    /\ outbox \in UNION {[1..n -> ChangesOf(emitterKind)] : n \in 0..maxLen}
    /\ emitted = <<>>
    /\ wire = <<>>
    /\ logged = <<>>
    /\ pubPc = "emitting"

PublishNext ==
    \/ EmitChange
    \/ BroadcastSystemUpdate
    \/ Return

(***************************************************************************)
(* Fingerprints, field by field.  A JavaScript string is the sequence of   *)
(* its characters; a scalar value is a type with its rendering String(v);  *)
(* an object is the list of its properties in insertion order.  A record   *)
(* is its own scalar properties, its hourlyData (one object per time slot, *)
(* in insertion order) and its array of sub-objects: the subRows of a CD   *)
(* record, the groups of a Center TV response, the products of a CD        *)
(* Product response, each product with its array of details.  The field    *)
(* lists of the code are cut down to a text field and a numeric field of   *)
(* each list, and the time slots to the first MaxSlots.                    *)
(***************************************************************************)
undefined == [type |-> "undefined", val |-> <<"undefined">>]
number(digit) == [type |-> "number", val |-> <<digit>>]
string(chars) == [type |-> "string", val |-> chars]

\* object[key]
get(object, key) ==
    IF \E n \in DOMAIN object : object[n].key = key
    THEN object[CHOOSE n \in DOMAIN object : object[n].key = key].value
    ELSE undefined

\* String(value)
StringOf(value) == value.val

\* !value
falsy(value) ==
    \/ value.type = "undefined"
    \/ value = number("0")
    \/ value = string(<<>>)

\* value || fallback
orElse(value, fallback) == IF falsy(value) THEN fallback ELSE value

\* value !== undefined && value !== null ? String(value) : fallback
definedOr(value, fallback) ==
    IF value.type = "undefined" THEN fallback ELSE StringOf(value)

RECURSIVE join(_, _)
\* parts.join(separator)
join(parts, separator) ==
    IF parts = <<>> THEN <<>>
    ELSE IF Len(parts) = 1 THEN parts[1]
    ELSE parts[1] \o <<separator>> \o join(Tail(parts), separator)

\* Buffer.from(text).toString('base64'): one to one on the text
toBase64(text) == <<"base64">> \o text

timeSlots == <<"h830", "h930", "h1030", "h1130", "h1330", "h1430", "h1530",
               "h1630", "h1800", "h1900", "h2000">>
monitoredSlots == SubSeq(timeSlots, 1, MaxSlots)

\* hourlyData[slot], the properties of the slot's object; <<>> and absent
\* are told apart by hasSlot
hasSlot(hourlyData, slot) == \E n \in DOMAIN hourlyData : hourlyData[n].slot = slot
slotData(hourlyData, slot) ==
    hourlyData[CHOOSE n \in DOMAIN hourlyData : hourlyData[n].slot = slot].props

\* HTMSheetsListenerService.serializeHourlyData
serializeHourlyDataHTM(hourlyData) ==
    LET fields == <<"sanluong", "duLieu">>
        present == SelectSeq(monitoredSlots, LAMBDA slot : hasSlot(hourlyData, slot))
        part(slot) ==
            <<slot, ":">> \o
            join([n \in DOMAIN fields |->
                    definedOr(get(slotData(hourlyData, slot), fields[n]), <<"0">>)],
                 ",")
    IN join([n \in DOMAIN present |-> part(present[n])], "|")

\* HTMSheetsListenerService.calculateChecksum read over the record's own
\* properties as they come, in place of the list of monitored fields
calculateChecksumHTMOwnKeys(record) ==
    toBase64(
        join([n \in DOMAIN record.props |-> StringOf(record.props[n].value)], "|")
        \o <<"|">> \o serializeHourlyDataHTM(record.hourlyData))

\* HTMSheetsListenerService.calculateChecksum
calculateChecksumHTM(record) ==
    LET fields == <<"maHang", "slth">>
        fieldValues ==
            join([n \in DOMAIN fields |-> definedOr(get(record.props, fields[n]), <<>>)],
                 "|")
        hourlyValues == serializeHourlyDataHTM(record.hourlyData)
        metaValues ==
            join(<<StringOf(orElse(get(record.props, "endlineSheetSource"),
                                   string(<<>>)))>>, "|")
    IN toBase64(fieldValues \o <<"|">> \o hourlyValues \o <<"|">> \o metaValues)

\* CDListenerService.serializeHourlyData
serializeHourlyDataCD(hourlyData) ==
    LET fields == <<"sanluong", "percentage">>
        present == SelectSeq(monitoredSlots, LAMBDA slot : hasSlot(hourlyData, slot))
        part(slot) ==
            <<slot, ":">> \o
            join([n \in DOMAIN fields |->
                    StringOf(orElse(get(slotData(hourlyData, slot), fields[n]),
                                    number("0")))],
                 ",")
    IN join([n \in DOMAIN present |-> part(present[n])], "|")

\* CDListenerService.serializeSubRows
serializeSubRows(subRows) ==
    LET row(sr) ==
            join(<<StringOf(orElse(get(sr.props, "tglv"), number("0"))),
                   StringOf(orElse(get(sr.props, "maHang"), string(<<>>)))>>, ",")
    IN join([n \in DOMAIN subRows |-> row(subRows[n])], "|")

\* CDListenerService.calculateChecksum with the sub-rows left out
calculateChecksumCDNoSubRows(record) ==
    LET fields == <<"maHang", "slth">>
        fieldValues ==
            join([n \in DOMAIN fields |->
                    StringOf(orElse(get(record.props, fields[n]), string(<<>>)))],
                 "|")
    IN toBase64(fieldValues \o <<"|">> \o serializeHourlyDataCD(record.hourlyData)
                \o <<"|">>)

\* CDListenerService.calculateChecksum
calculateChecksumCD(record) ==
    LET fields == <<"maHang", "slth">>
        fieldValues ==
            join([n \in DOMAIN fields |->
                    StringOf(orElse(get(record.props, fields[n]), string(<<>>)))],
                 "|")
        hourlyValues == serializeHourlyDataCD(record.hourlyData)
        subRowsValues == serializeSubRows(record.subRows)
    IN toBase64(fieldValues \o <<"|">> \o hourlyValues \o <<"|">> \o subRowsValues)

\* HTMCenterTVListenerService.calculateChecksum; data.groups is the array
calculateChecksumCenterTV(data) ==
    LET fields == <<"nhom", "lkTh">>
        group(g) ==
            join([n \in DOMAIN fields |->
                    StringOf(orElse(get(g.props, fields[n]), string(<<>>)))], ",")
    IN toBase64(join([n \in DOMAIN data.subRows |-> group(data.subRows[n])], "|"))

\* JSON.stringify of a property: nothing for undefined, a string in quotes
stringifyProperty(key, value) ==
    IF value.type = "undefined" THEN <<>>
    ELSE IF value.type = "string"
    THEN << <<"\"", key, "\"", ":", "\"">> \o value.val \o <<"\"">> >>
    ELSE << <<"\"", key, "\"", ":">> \o value.val >>

\* JSON.stringify of an array of texts
stringifyArray(key, items) ==
    <<"\"", key, "\"", ":", "[">> \o join(items, ",") \o <<"]">>

stringifyObject(properties) == <<"{">> \o join(properties, ",") \o <<"}">>

\* CDProductListenerService.calculateChecksum: JSON.stringify of an object
\* built property by property from the response
calculateChecksumCDProduct(data) ==
    LET detail(d) ==
            stringifyObject(stringifyProperty("conLai", get(d, "conLai")))
        product(p) ==
            stringifyObject(
                stringifyProperty("ma", get(p.props, "ma")) \o
                stringifyProperty("slkh", get(p.props, "slkh")) \o
                <<stringifyArray("details",
                                 [n \in DOMAIN p.details |-> detail(p.details[n])])>>)
    IN stringifyObject(
           stringifyProperty("maChuyenLine",
                             orElse(get(data.props, "maChuyenLine"), string(<<>>))) \o
           stringifyProperty("totalProducts",
                             orElse(get(data.props, "totalProducts"), number("0"))) \o
           <<stringifyArray("products",
                            [n \in DOMAIN data.subRows |-> product(data.subRows[n])])>>)

\* the listeners whose fingerprint is modelled field by field
ChecksumKinds == {"HTM", "CD", "CenterTV", "CDProduct"}

\* calculateChecksum of the listener
checksumOf(kind, record) ==
    CASE kind = "HTM" -> calculateChecksumHTM(record)
      [] kind = "CD" -> calculateChecksumCD(record)
      [] kind = "CenterTV" -> calculateChecksumCenterTV(record)
      [] OTHER -> calculateChecksumCDProduct(record)

Field(key, type) == [key |-> key, type |-> type]

\* the monitored own fields of the record, of its time slots, of its
\* sub-objects and of their details, with the type the normalizer gives them
ScalarFields(kind) ==
    CASE kind = "HTM" -> <<Field("maHang", "string"), Field("slth", "number"),
                           Field("endlineSheetSource", "string")>>
      [] kind = "CD" -> <<Field("maHang", "string"), Field("slth", "number")>>
      [] kind = "CenterTV" -> <<>>
      [] OTHER -> <<Field("maChuyenLine", "string"),
                    Field("totalProducts", "number")>>

SlotFields(kind) ==
    CASE kind = "HTM" -> <<Field("sanluong", "number"), Field("duLieu", "string")>>
      [] kind = "CD" -> <<Field("sanluong", "number"), Field("percentage", "number")>>
      [] OTHER -> <<>>

RowFields(kind) ==
    CASE kind = "CD" -> <<Field("tglv", "number"), Field("maHang", "string")>>
      [] kind = "CenterTV" -> <<Field("nhom", "string"), Field("lkTh", "number")>>
      [] kind = "CDProduct" -> <<Field("ma", "string"), Field("slkh", "number")>>
      [] OTHER -> <<>>

DetailFields(kind) ==
    IF kind = "CDProduct" THEN <<Field("conLai", "number")>> ELSE <<>>

\* the values a cell gives to a field of the type
ValuesOf(type) ==
    IF type = "string" THEN {string(<<>>), string(<<"A">>), string(<<"B">>)}
    ELSE {number("0"), number("1"), number("2")}

\* the values the stored record is drawn from
DrawnValues(type) ==
    IF type = "string" THEN {string(<<>>), string(<<"A">>)}
    ELSE {number("0"), number("1")}

\* the objects holding the fields, in the order the normalizer writes them
Objects(fields) ==
    {[n \in DOMAIN fields |-> [key |-> fields[n].key, value |-> f[n]]] :
        f \in {g \in [DOMAIN fields -> DrawnValues("string") \cup DrawnValues("number")] :
                 \A n \in DOMAIN fields : g[n].type = fields[n].type}}

\* the arrays of up to maxLen of the items
ArraysOf(items, maxLen) == UNION {[1..n -> items] : n \in 0..maxLen}

\* the records the normalizer of the listener may return; `id` stands for
\* the properties the fingerprint does not monitor
Records(kind, maxSlots, maxRows) ==
    LET owns == {Append(o, [key |-> "id", value |-> number("1")]) :
                    o \in Objects(ScalarFields(kind))}
        hourlies ==
            IF SlotFields(kind) = <<>> THEN {<<>>}
            ELSE {SelectSeq2([n \in 1..maxSlots |->
                                 [slot |-> timeSlots[n], props |-> f[n]]],
                             LAMBDA x : x.props # <<>>) :
                     f \in [1..maxSlots -> Objects(SlotFields(kind)) \cup {<<>>}]}
        details == IF DetailFields(kind) = <<>> THEN {<<>>}
                   ELSE ArraysOf(Objects(DetailFields(kind)), maxRows)
        rows == IF RowFields(kind) = <<>> THEN {<<>>}
                ELSE ArraysOf([props : Objects(RowFields(kind)), details : details],
                              maxRows)
    IN [props : owns, hourlyData : hourlies, subRows : rows]

\* object[key] = value
setProp(object, key, value) ==
    [n \in DOMAIN object |->
        IF object[n].key = key THEN [key |-> key, value |-> value] ELSE object[n]]

\* the same object, its properties written in the opposite order
reordered(object) == Reversed(object)

\* the same record built another way: every object written in the opposite
\* order of keys (the arrays keep their order)
rebuilt(record) ==
    [props |-> reordered(record.props),
     hourlyData |-> Reversed([n \in DOMAIN record.hourlyData |->
                        [slot |-> record.hourlyData[n].slot,
                         props |-> reordered(record.hourlyData[n].props)]]),
     subRows |-> [n \in DOMAIN record.subRows |->
                    [props |-> reordered(record.subRows[n].props),
                     details |-> [m \in DOMAIN record.subRows[n].details |->
                                     reordered(record.subRows[n].details[m])]]]]

\* the same record with other values in what the fingerprint does not
\* monitor: its id, and a property more in every time slot
touched(record) ==
    [record EXCEPT
        !.props = setProp(@, "id", number("2")),
        !.hourlyData = [n \in DOMAIN @ |->
                          [slot |-> @[n].slot,
                           props |-> Append(@[n].props,
                                            [key |-> "tongKiemV2",
                                             value |-> number("1")])]]]

\* a cell of the entity's own row is edited: the next read returns the record
\* with another value in one field
EditScalar ==
    /\ sumPc = "stored"
    /\ \E n \in DOMAIN ScalarFields(sumKind) :
         \E value \in ValuesOf(ScalarFields(sumKind)[n].type) :
            /\ value # get(storedRecord.props, ScalarFields(sumKind)[n].key)
            /\ currentRecord' =
                 [storedRecord EXCEPT
                    !.props = setProp(@, ScalarFields(sumKind)[n].key, value)]
    /\ derivation' = "scalar"
    /\ sumPc' = "read"
    /\ UNCHANGED <<sumKind, storedRecord, storedSum, currentSum, fetchVars,
                   listenerVars, normalizeVars, mergeVars, publishVars,
                   parserVars, serviceVars>>

\* a cell of one time slot, of one sub-row or of one detail is edited
EditNested ==
    /\ sumPc = "stored"
    /\ \/ \E s \in DOMAIN storedRecord.hourlyData, n \in DOMAIN SlotFields(sumKind) :
            \E value \in ValuesOf(SlotFields(sumKind)[n].type) :
               /\ value # get(storedRecord.hourlyData[s].props, SlotFields(sumKind)[n].key)
               /\ currentRecord' =
                    [storedRecord EXCEPT
                       !.hourlyData[s].props =
                           setProp(@, SlotFields(sumKind)[n].key, value)]
       \/ \E r \in DOMAIN storedRecord.subRows, n \in DOMAIN RowFields(sumKind) :
            \E value \in ValuesOf(RowFields(sumKind)[n].type) :
               /\ value # get(storedRecord.subRows[r].props, RowFields(sumKind)[n].key)
               /\ currentRecord' =
                    [storedRecord EXCEPT
                       !.subRows[r].props =
                           setProp(@, RowFields(sumKind)[n].key, value)]
       \/ \E r \in DOMAIN storedRecord.subRows, n \in DOMAIN DetailFields(sumKind) :
            \E d \in DOMAIN storedRecord.subRows[r].details :
               \E value \in ValuesOf(DetailFields(sumKind)[n].type) :
                  /\ value # get(storedRecord.subRows[r].details[d],
                                 DetailFields(sumKind)[n].key)
                  /\ currentRecord' =
                       [storedRecord EXCEPT
                          !.subRows[r].details[d] =
                              setProp(@, DetailFields(sumKind)[n].key, value)]
    /\ derivation' = "nested"
    /\ sumPc' = "read"
    /\ UNCHANGED <<sumKind, storedRecord, storedSum, currentSum, fetchVars,
                   listenerVars, normalizeVars, mergeVars, publishVars,
                   parserVars, serviceVars>>

\* the sheet is as it was: the next read returns a record with the same
\* values, built anew
ReadAgain ==
    /\ sumPc = "stored"
    /\ \E reorder, touch \in BOOLEAN :
         currentRecord' =
             LET r == IF reorder THEN rebuilt(storedRecord) ELSE storedRecord
             IN IF touch THEN touched(r) ELSE r
    /\ derivation' = "again"
    /\ sumPc' = "read"
    /\ UNCHANGED <<sumKind, storedRecord, storedSum, currentSum, fetchVars,
                   listenerVars, normalizeVars, mergeVars, publishVars,
                   parserVars, serviceVars>>

\* const currentChecksum = this.calculateChecksum(record), beside the
\* checksum stored with the previous record
CalculateChecksum ==
    /\ sumPc = "read"
    /\ storedSum' = checksumOf(sumKind, storedRecord)
    /\ currentSum' = checksumOf(sumKind, currentRecord)
    /\ sumPc' = "compared"
    /\ UNCHANGED <<sumKind, storedRecord, currentRecord, derivation, fetchVars,
                   listenerVars, normalizeVars, mergeVars, publishVars,
                   parserVars, serviceVars>>

\* the listener of one of `kinds` holds a record of up to maxSlots time slots
\* and maxRows sub-objects
fingerprinting(kinds, maxSlots, maxRows) ==
    /\ sumKind \in kinds
    /\ storedRecord \in Records(sumKind, maxSlots, maxRows)
    /\ currentRecord = storedRecord
    /\ storedSum = <<>>
    /\ currentSum = <<>>
    /\ derivation = "none"
    /\ sumPc = "stored"

ChecksumNext ==
    \/ EditScalar
    \/ EditNested
    \/ ReadAgain
    \/ CalculateChecksum

(***************************************************************************)
(* QSLSheetsService.parseGroupedData: the rows of a LINE sheet grouped by  *)
(* team.  A row is its cells in columns A (team name), B (working time, or *)
(* the marker of the small-bag block), C (group) and F (planned quantity), *)
(* columns A to C as trimmed.                                              *)
(* The Vietnamese words of the sheet are written without their accents:    *)
(* "TO 1" for a team marker, "TUI NHO" for the marker of the block.        *)
(***************************************************************************)
QslRowTypes ==
    {[tenTo |-> "TO 1", tglvRaw |-> "8", nhom |-> "DONG GOI", keHoach |-> "100"],
     [tenTo |-> "TUI NHO", tglvRaw |-> "", nhom |-> "QC KIEM TUI", keHoach |-> "5"],
     [tenTo |-> "", tglvRaw |-> "tui nho(neu co)", nhom |-> "QC KIEM TUI",
      keHoach |-> "0"],
     [tenTo |-> "", tglvRaw |-> "", nhom |-> "RAP", keHoach |-> "1,200"],
     [tenTo |-> "", tglvRaw |-> "", nhom |-> "RAP", keHoach |-> ""],
     [tenTo |-> "", tglvRaw |-> "", nhom |-> "", keHoach |-> "5"]}
QslGrids == UNION {[1..n -> QslRowTypes] : n \in 1..MaxQslRows}

\* tenTo.match(/^TO\s+\d+$/i)
isTeamMarker(cell) == cell \in {"TO 1", "TO 2", "to 1"}

\* cell.match(/^TUI\s+NHO/i)
isTuiNhoMarker(cell) == cell \in {"TUI NHO", "tui nho(neu co)", "TUI NHO(NEU CO)"}

\* QSLSheetsService.parseNumber: parseFloat without the thousands commas,
\* 0 for what is not a number
parseNumberQSL(cell) ==
    CASE cell = "0" -> 0
      [] cell = "5" -> 5
      [] cell = "100" -> 100
      [] cell = "1,200" -> 1200
      [] OTHER -> 0

\* parseRowData(row, nhom); `row` remembers which row of the grid it was
parseRowData(row, i) ==
    [nhom |-> row.nhom, keHoach |-> parseNumberQSL(row.keHoach), row |-> i]

\* FIXED_GROUPS.length
FixedGroupsLength == 9

\* the state of the loop: currentTeam is <<>> for null
LoopStart == [teams |-> <<>>, currentTeam |-> <<>>, fixedRowCount |-> 0,
              inTuiNhoSection |-> FALSE]

\* one turn of the loop that adds every row of the block, whatever it plans
parseStepUnfiltered(st, row, i) ==
    IF isTeamMarker(row.tenTo)
    THEN [teams |-> st.teams \o st.currentTeam,
          currentTeam |-> <<[tenTo |-> row.tenTo,
                             fixedGroups |-> IF row.nhom # ""
                                             THEN <<parseRowData(row, i)>> ELSE <<>>,
                             tuiNhoGroups |-> <<>>]>>,
          fixedRowCount |-> IF row.nhom # "" THEN 1 ELSE 0,
          inTuiNhoSection |-> FALSE]
    ELSE LET section == \/ st.inTuiNhoSection
                        \/ isTuiNhoMarker(row.tenTo)
                        \/ isTuiNhoMarker(row.tglvRaw)
             entered == [st EXCEPT !.inTuiNhoSection = section]
         IN IF row.nhom = "" \/ st.currentTeam = <<>> THEN entered
            ELSE IF ~section /\ st.fixedRowCount < FixedGroupsLength
            THEN [entered EXCEPT
                    !.currentTeam[1].fixedGroups = Append(@, parseRowData(row, i)),
                    !.fixedRowCount = @ + 1]
            ELSE IF section
            THEN [entered EXCEPT
                    !.currentTeam[1].tuiNhoGroups = Append(@, parseRowData(row, i))]
            ELSE entered

\* one turn of the loop of parseGroupedData, on row i
parseStep(st, row, i) ==
    IF isTeamMarker(row.tenTo)
    THEN [teams |-> st.teams \o st.currentTeam,
          currentTeam |-> <<[tenTo |-> row.tenTo,
                             fixedGroups |-> IF row.nhom # ""
                                             THEN <<parseRowData(row, i)>> ELSE <<>>,
                             tuiNhoGroups |-> <<>>]>>,
          fixedRowCount |-> IF row.nhom # "" THEN 1 ELSE 0,
          inTuiNhoSection |-> FALSE]
    ELSE LET section == \/ st.inTuiNhoSection
                        \/ isTuiNhoMarker(row.tenTo)
                        \/ isTuiNhoMarker(row.tglvRaw)
             entered == [st EXCEPT !.inTuiNhoSection = section]
         IN IF row.nhom = "" \/ st.currentTeam = <<>> THEN entered
            ELSE IF ~section /\ st.fixedRowCount < FixedGroupsLength
            THEN [entered EXCEPT
                    !.currentTeam[1].fixedGroups = Append(@, parseRowData(row, i)),
                    !.fixedRowCount = @ + 1]
            ELSE IF section /\ parseNumberQSL(row.keHoach) > 0
            THEN [entered EXCEPT
                    !.currentTeam[1].tuiNhoGroups = Append(@, parseRowData(row, i))]
            ELSE entered

RECURSIVE parseFrom(_, _, _)
\* the loop from row i on
parseFrom(st, rows, i) ==
    IF i > Len(rows) THEN st
    ELSE parseFrom(parseStep(st, rows[i], i), rows, i + 1)

\* parseGroupedData(dataRows, line).teams
parseGroupedData(rows) ==
    LET st == parseFrom(LoopStart, rows, 1)
    IN st.teams \o st.currentTeam

\* getQSLData: the sheet has been read and is parsed
ParseGroupedData ==
    /\ qslPc = "read"
    /\ qslTeams' = parseGroupedData(qslRows)
    /\ qslPc' = "parsed"
    /\ UNCHANGED <<qslRows, fillRows, filled, fillKind, fetchVars, listenerVars,
                   normalizeVars, mergeVars, publishVars, checksumVars,
                   serviceVars>>

\* the LINE sheet as read
parsingQSL(grids) ==
    /\ qslRows \in grids
    /\ qslTeams = <<>>
    /\ qslPc = "read"

QslNext == ParseGroupedData

(***************************************************************************)
(* Fill-forward of the identifier columns.  A row is its cells in the      *)
(* factory column (NM) and in the line column (LINE; the team column of    *)
(* the CD sub-rows); " " is a cell holding blanks only.                    *)
(***************************************************************************)
FillRowTypes == [nhaMay : {"", " ", "TS1", "TS2"}, line : {"", "LINE 1", "LINE 2"}]
FillGrids == UNION {[1..n -> FillRowTypes] : n \in 0..MaxFillRows}

\* (cell || '').toString().trim()
trimmed(cell) == IF cell = " " THEN "" ELSE cell

\* the turn of the loop that never takes a new value once it carries one
fillStepKeepFirst(current, cell) ==
    LET own == trimmed(cell)
    IN IF current # "" THEN [value |-> current, current |-> current]
       ELSE [value |-> own, current |-> own]

\* parseRFTData, one column in one turn of the loop: the value of the cell
\* after the fill and the value carried on
fillStep(current, cell) ==
    LET own == trimmed(cell)
    IN IF own = "" /\ current # "" THEN [value |-> current, current |-> current]
       ELSE IF own # "" THEN [value |-> own, current |-> own]
       ELSE [value |-> own, current |-> current]

RECURSIVE fillColumn(_, _)
\* parseRFTData: the values of a column, row after row
fillColumn(cells, current) ==
    IF cells = <<>> THEN <<>>
    ELSE LET step == fillStep(current, Head(cells))
         IN <<step.value>> \o fillColumn(Tail(cells), step.current)

RECURSIVE lastKnown(_, _, _)
\* getEndlineDataByRowIndex: for (i = 0; i <= rowIndex; i++) if (cell)
\* current = cell, from row i (from 0) on
lastKnown(cells, i, current) ==
    IF i >= Len(cells) THEN current
    ELSE lastKnown(cells, i + 1,
                   IF trimmed(cells[i + 1]) # "" THEN trimmed(cells[i + 1])
                   ELSE current)

\* getEndlineDataByRowIndex: the value of the column in the target row
filledAt(cells, rowIndex) ==
    LET own == trimmed(cells[rowIndex + 1])
    IN IF own = "" THEN lastKnown(SubSeq(cells, 1, rowIndex + 1), 0, "") ELSE own

RECURSIVE previousTo(_, _)
\* CD sub-rows: for (i = idx - 1; i >= 0; i--) the first cell not empty
previousTo(cells, i) ==
    IF i < 0 THEN ""
    ELSE IF trimmed(cells[i + 1]) # "" THEN trimmed(cells[i + 1])
    ELSE previousTo(cells, i - 1)

\* CD sub-rows: currentTo of sub-row idx (from 0)
inheritedTo(cells, idx) ==
    LET toField == trimmed(cells[idx + 1])
    IN IF toField = "" /\ idx > 0 THEN previousTo(cells, idx - 1) ELSE toField

Column(rows, name) == [n \in DOMAIN rows |-> rows[n][name]]

\* parseRFTData walks the ENDLINE rows
ParseRFTData ==
    /\ fillKind = "none"
    /\ fillKind' = "parseRFTData"
    /\ filled' = [n \in DOMAIN fillRows |->
                    [at |-> n - 1,
                     nhaMay |-> fillColumn(Column(fillRows, "nhaMay"), "")[n],
                     line |-> fillColumn(Column(fillRows, "line"), "")[n]]]
    /\ UNCHANGED <<fillRows, qslRows, qslTeams, qslPc, fetchVars, listenerVars,
                   normalizeVars, mergeVars, publishVars, checksumVars,
                   serviceVars>>

\* getEndlineDataByRowIndex reads one ENDLINE row
GetEndlineDataByRowIndex ==
    /\ fillKind = "none"
    /\ \E rowIndex \in 0..(Len(fillRows) - 1) :
         filled' = <<[at |-> rowIndex,
                      nhaMay |-> filledAt(Column(fillRows, "nhaMay"), rowIndex),
                      line |-> filledAt(Column(fillRows, "line"), rowIndex)]>>
    /\ fillKind' = "getEndlineDataByRowIndex"
    /\ UNCHANGED <<fillRows, qslRows, qslTeams, qslPc, fetchVars, listenerVars,
                   normalizeVars, mergeVars, publishVars, checksumVars,
                   serviceVars>>

\* CDSheetsService.getProductionData maps the sub-rows of a group; the line
\* column stands for their team column, the only one it fills
MapSubRows ==
    /\ fillKind = "none"
    /\ fillKind' = "subRows"
    /\ filled' = [n \in DOMAIN fillRows |->
                    [at |-> n - 1,
                     nhaMay |-> trimmed(fillRows[n].nhaMay),
                     line |-> inheritedTo(Column(fillRows, "line"), n - 1)]]
    /\ UNCHANGED <<fillRows, qslRows, qslTeams, qslPc, fetchVars, listenerVars,
                   normalizeVars, mergeVars, publishVars, checksumVars,
                   serviceVars>>

\* the rows as read
filling(grids) ==
    /\ fillRows \in grids
    /\ filled = <<>>
    /\ fillKind = "none"

FillNext ==
    \/ ParseRFTData
    \/ GetEndlineDataByRowIndex
    \/ MapSubRows

(***************************************************************************)
(* The choice of the ENDLINE sheet by the time of day                      *)
(* (HTMSheetsService.getEndlineSheetConfig).                               *)
(***************************************************************************)
MinutesOfDay == 0..(24 * 60 - 1)

\* toLocaleString with timeZone Asia/Ho_Chi_Minh, read back with getHours and
\* getMinutes: the wall clock of UTC+7, as minutes from midnight
currentTimeInMinutes(utc) == (utc + 7 * 60) % (24 * 60)

cutoffTime == 8 * 60

\* the sheet names when the configuration names none
getEndlineSheetConfig(utc) ==
    IF currentTimeInMinutes(utc) < cutoffTime THEN "ENDLINE_BEFORE_DATA"
                                              ELSE "ENDLINE_DAILY_DATA"

GetEndlineSheetConfig ==
    /\ sheetConfig = "none"
    /\ sheetConfig' = getEndlineSheetConfig(utcMinutes)
    /\ UNCHANGED <<utcMinutes, cacheVars, quotaVars, degradeVars, fetchVars, listenerVars, normalizeVars,
                   mergeVars, publishVars, checksumVars, parserVars>>

\* the clock at the call
choosing(minutes) ==
    /\ utcMinutes \in minutes
    /\ sheetConfig = "none"

SheetNext == GetEndlineSheetConfig

(***************************************************************************)
(* The read-through caches of QSLSheetsService.getProductionDataByLine,    *)
(* HTMCenterTVService.getCenterTVData and                                  *)
(* CDProductSheetsService.getProductionDataBySheet, for one cache key.     *)
(***************************************************************************)
CacheKinds == {"QSL", "CenterTV", "CDProduct"}
CacheCallers == 1..NumCacheCallers
CacheKey == "key"

CACHE_TTL(kind) == IF kind = "CenterTV" THEN 30000 ELSE 15000

\* clearCache exists in the QSL and the CD Product service
HasClearCache(kind) == kind \in {"QSL", "CDProduct"}

\* Date.now() - cached.timestamp, -1 when the Map has no entry for the key
ageOf(cache, t) == IF CacheKey \in DOMAIN cache THEN t - cache[CacheKey].timestamp ELSE -1

\* a variant of isFresh that still serves the entry when its age is the TTL
isFreshAtTTL(kind, cache, t) ==
    CacheKey \in DOMAIN cache /\ t - cache[CacheKey].timestamp <= CACHE_TTL(kind)

\* cached && now - cached.timestamp < CACHE_TTL
isFresh(kind, cache, t) ==
    CacheKey \in DOMAIN cache /\ t - cache[CacheKey].timestamp < CACHE_TTL(kind)

IdleCaller == [pc |-> "idle", via |-> "none", age |-> -1, issuedAt |-> -1, data |-> -1]

\* the call up to its return from the cache or up to its await of the read;
\* data is the time the read behind the value was issued
GetCached(c) ==
    /\ cacheCalls[c].pc = "idle"
    /\ IF isFresh(cacheKind, dataCache, cacheNow)
       THEN /\ cacheCalls' = [cacheCalls EXCEPT ![c] =
                    [pc |-> "done", via |-> "cache", age |-> ageOf(dataCache, cacheNow),
                     issuedAt |-> -1, data |-> dataCache[CacheKey].data]]
            /\ UNCHANGED upstreamReads
       ELSE /\ Len(upstreamReads) < MaxReads
            /\ cacheCalls' = [cacheCalls EXCEPT ![c] =
                    [pc |-> "reading", via |-> "read", age |-> ageOf(dataCache, cacheNow),
                     issuedAt |-> cacheNow, data |-> -1]]
            /\ upstreamReads' = Append(upstreamReads, cacheNow)
    /\ UNCHANGED <<cacheKind, cacheNow, dataCache, cacheTicks, sheetVars, quotaVars, degradeVars, fetchVars,
                   listenerVars, normalizeVars, mergeVars, publishVars, checksumVars,
                   parserVars>>

\* the awaited read returns: rows are parsed and stored with the time of the
\* store; an empty or failed read gives the empty response and stores nothing
ReadReturn(c) ==
    /\ cacheCalls[c].pc = "reading"
    /\ \E rows \in BOOLEAN :
         /\ dataCache' = IF rows
                          THEN put(dataCache, CacheKey,
                                   [data |-> cacheCalls[c].issuedAt, timestamp |-> cacheNow])
                          ELSE dataCache
         /\ cacheCalls' = [cacheCalls EXCEPT ![c].pc = "done",
                                              ![c].data = IF rows THEN cacheCalls[c].issuedAt
                                                                  ELSE -1]
    /\ UNCHANGED <<cacheKind, cacheNow, upstreamReads, cacheTicks, sheetVars, quotaVars, degradeVars, fetchVars,
                   listenerVars, normalizeVars, mergeVars, publishVars, checksumVars,
                   parserVars>>

\* the caller has its answer and may call again
CallerLeaves(c) ==
    /\ cacheCalls[c].pc = "done"
    /\ cacheCalls' = [cacheCalls EXCEPT ![c] = IdleCaller]
    /\ UNCHANGED <<cacheKind, cacheNow, dataCache, upstreamReads, cacheTicks, sheetVars,
                   quotaVars, degradeVars, fetchVars, listenerVars, normalizeVars, mergeVars, publishVars,
                   checksumVars, parserVars>>

\* clearCache for the key
ClearCache ==
    /\ HasClearCache(cacheKind)
    /\ CacheKey \in DOMAIN dataCache
    /\ dataCache' = without(dataCache, CacheKey)
    /\ UNCHANGED <<cacheKind, cacheNow, cacheCalls, upstreamReads, cacheTicks, sheetVars,
                   quotaVars, degradeVars, fetchVars, listenerVars, normalizeVars, mergeVars, publishVars,
                   checksumVars, parserVars>>

CacheTick ==
    /\ cacheTicks < MaxCacheTicks
    /\ cacheTicks' = cacheTicks + 1
    /\ cacheNow' = cacheNow + CacheTickMs
    /\ UNCHANGED <<cacheKind, dataCache, cacheCalls, upstreamReads, sheetVars, quotaVars, degradeVars, fetchVars,
                   listenerVars, normalizeVars, mergeVars, publishVars, checksumVars,
                   parserVars>>

\* the service as constructed: an empty Map
caching(kinds) ==
    /\ cacheKind \in kinds
    /\ cacheNow = 0
    /\ dataCache = <<>>
    /\ cacheCalls = [c \in CacheCallers |-> IdleCaller]
    /\ upstreamReads = <<>>
    /\ cacheTicks = 0

CacheNext ==
    \/ \E c \in CacheCallers : GetCached(c)
    \/ \E c \in CacheCallers : ReadReturn(c)
    \/ \E c \in CacheCallers : CallerLeaves(c)
    \/ ClearCache
    \/ CacheTick

(***************************************************************************)
(* The quota guard of getProductionData (CDSheetsService and              *)
(* HTMSheetsService) around the retrying getSheetData.                     *)
(***************************************************************************)
IdleProduction == [pc |-> "idle", attempt |-> 0, outcomes |-> <<>>, ret |-> "none"]

\* isQuotaExceeded && Date.now() < quotaResetTime
quotaGuard(flag, t, resetTime) == flag /\ t < resetTime

\* what getSheetData hands to getProductionData once it stops on `outcome`:
\* its outer catch turns every error into the empty grid, nothing is thrown
settled(outcome) == [values |-> returned(outcome), thrown |-> "none"]

\* the catch of getProductionData: error.message?.includes('Quota exceeded')
quotaCaught(message) == message = "Quota exceeded"

\* getProductionData up to the guard or to its first request
GetProductionData ==
    /\ productionCall.pc = "idle"
    /\ productionCalls < MaxProductionCalls
    /\ productionCalls' = productionCalls + 1
    /\ productionCall' =
          IF quotaGuard(isQuotaExceeded, quotaNow, quotaResetTime)
          THEN [IdleProduction EXCEPT !.pc = "done", !.ret = "guarded"]
          ELSE [IdleProduction EXCEPT !.pc = "attempt"]
    /\ UNCHANGED <<isQuotaExceeded, quotaResetTime, quotaNow, quotaRequests, sheetVars,
                   cacheVars, degradeVars, fetchVars, listenerVars, normalizeVars, mergeVars,
                   publishVars, checksumVars, parserVars>>

\* one upstream request and its answer; when getSheetData stops, the rest of
\* getProductionData up to its return
ProductionAttempt ==
    /\ productionCall.pc = "attempt"
    /\ quotaRequests' = quotaRequests + 1
    /\ \E outcome \in Outcomes :
         LET out == Append(productionCall.outcomes, outcome)
             res == settled(outcome)
         IN  IF retries("HTMSheetsService", productionCall.attempt, outcome)
             THEN /\ productionCall' = [productionCall EXCEPT !.pc = "backoff",
                                                              !.outcomes = out]
                  /\ UNCHANGED <<isQuotaExceeded, quotaResetTime>>
             ELSE /\ productionCall' =
                        [productionCall EXCEPT !.pc = "done", !.outcomes = out,
                             !.ret = IF res.values = "grid" THEN "data" ELSE "empty"]
                  /\ isQuotaExceeded' = (isQuotaExceeded \/ quotaCaught(res.thrown))
                  /\ quotaResetTime' = IF quotaCaught(res.thrown) THEN quotaNow + 60000
                                                                  ELSE quotaResetTime
    /\ UNCHANGED <<quotaNow, productionCalls, sheetVars, cacheVars, degradeVars, fetchVars, listenerVars,
                   normalizeVars, mergeVars, publishVars, checksumVars, parserVars>>

\* the backoff of getSheetData is over
ProductionBackoffWake ==
    /\ productionCall.pc = "backoff"
    /\ \E jitter \in JitterSamples :
         quotaNow' = quotaNow + backoffDelay(productionCall.attempt, jitter)
    /\ productionCall' = [productionCall EXCEPT !.pc = "attempt", !.attempt = @ + 1]
    /\ UNCHANGED <<isQuotaExceeded, quotaResetTime, productionCalls, quotaRequests,
                   sheetVars, cacheVars, degradeVars, fetchVars, listenerVars, normalizeVars, mergeVars,
                   publishVars, checksumVars, parserVars>>

\* the caller has its answer; the next call may follow at once
ProductionCallerLeaves ==
    /\ productionCall.pc = "done"
    /\ productionCall' = IdleProduction
    /\ UNCHANGED <<isQuotaExceeded, quotaResetTime, quotaNow, productionCalls,
                   quotaRequests, sheetVars, cacheVars, degradeVars, fetchVars, listenerVars,
                   normalizeVars, mergeVars, publishVars, checksumVars, parserVars>>

\* the service as constructed
guarding(spent) ==
    /\ isQuotaExceeded = FALSE
    /\ quotaResetTime = 0
    /\ quotaNow = 0
    /\ productionCall = IdleProduction
    /\ productionCalls \in spent
    /\ quotaRequests = 0

QuotaNext ==
    \/ GetProductionData
    \/ ProductionAttempt
    \/ ProductionBackoffWake
    \/ ProductionCallerLeaves

(***************************************************************************)
(* The HTM listener over one tracked key whose reads of the ENDLINE sheet  *)
(* may fail while the sheets stay as they are (loadLineData, performCheck  *)
(* and getProductionDataWithEndlineMerge).                                 *)
(***************************************************************************)
\* what a read of the ENDLINE sheet hands over: the rows, or [] when
\* getSheetData has caught an error
readOf(rv, ok) == IF ok THEN rv ELSE <<>>

\* getProductionDataWithEndlineMerge: rvBase is the ENDLINE grid read inside
\* getProductionData, rvDetail the one read by getEndlineDataByRowIndex
endlineMerge(pv, rvBase, rvDetail, req) ==
    LET baseRecord == find(getProductionData(pv, rvBase), req.code)
    IN  IF baseRecord.source = "null" THEN NoRecord
        ELSE IF noEndline(rvDetail, req.rowIndex) THEN baseRecord
        ELSE [baseRecord EXCEPT !.tongKiem = rvDetail[req.rowIndex + 1].tongKiem,
                                !.hourly = rvDetail[req.rowIndex + 1].tongKiem,
                                !.rowIndex = req.rowIndex,
                                !.source = "MERGED"]

\* String(record._debug) and record._debug?.endlineSheetSource: set by the
\* merge only
debugOf(record) == IF record.source = "MERGED" THEN "[object Object]|ENDLINE" ELSE "|"

\* calculateChecksum of the HTM listener over the fields of the record
checksumOfMerge(record) ==
    <<record.maChuyenLine, record.slth, record.tongKiem, record.hourly, debugOf(record)>>

\* loadLineData for the tracked key
LoadTracked ==
    /\ htmSnapshot = <<>>
    /\ \E baseOk, detailOk \in BOOLEAN :
         LET mergedData == endlineMerge(productionValues, readOf(rftValues, baseOk),
                                        readOf(rftValues, detailOk), request)
         IN  /\ mergedData.source # "null"
             /\ htmSnapshot' = <<[data |-> mergedData,
                                   checksum |-> checksumOfMerge(mergedData)]>>
    /\ UNCHANGED <<htmChanges, htmChecks, sheetVars, cacheVars, quotaVars, fetchVars,
                   listenerVars, normalizeVars, mergeVars, publishVars, checksumVars,
                   parserVars>>

\* performCheck over the tracked key: read, compare, store and emit
CheckTracked ==
    /\ htmSnapshot # <<>>
    /\ htmChecks < MaxChecks
    /\ htmChecks' = htmChecks + 1
    /\ \E baseOk, detailOk \in BOOLEAN :
         LET rvDetail == readOf(rftValues, detailOk)
             mergedData == endlineMerge(productionValues, readOf(rftValues, baseOk),
                                        rvDetail, request)
             currentChecksum == checksumOfMerge(mergedData)
         IN  IF mergedData.source = "null" \/ htmSnapshot[1].checksum = currentChecksum
             THEN UNCHANGED <<htmSnapshot, htmChanges>>
             ELSE /\ htmSnapshot' = <<[data |-> mergedData, checksum |-> currentChecksum]>>
                  /\ htmChanges' = Append(htmChanges,
                        [type |-> "updated", data |-> mergedData,
                         detail |-> IF noEndline(rvDetail, request.rowIndex)
                                    THEN "nothing" ELSE "rows"])
    /\ UNCHANGED <<sheetVars, cacheVars, quotaVars, fetchVars, listenerVars, normalizeVars,
                   mergeVars, publishVars, checksumVars, parserVars>>

\* the listener as constructed
tracking(checks) ==
    /\ htmSnapshot = <<>>
    /\ htmChanges = <<>>
    /\ htmChecks \in checks

DegradeNext ==
    \/ LoadTracked
    \/ CheckTracked

\* the services at rest
idleServices ==
    /\ choosing({0})
    /\ caching({"QSL"})
    /\ guarding({0})
    /\ tracking({0})

(***************************************************************************)
(* Specifications: the fetch client with its callers, one listener with    *)
(* its cycles, the CD normalization of one grid, the HTM merge of one      *)
(* request; the other components stay as constructed.                      *)
(***************************************************************************)
FetchInit ==
    /\ constructedClient(ClientKinds)
    /\ startedListener({"CD"})
    /\ previousData # <<>>
    /\ normalizing({<<>>})
    /\ merging({<<>>}, {<<>>}, {[code |-> "KVHB07M01", rowIndex |-> 0]})
    /\ publishing({"HTM"}, 0, {{}})
    /\ fingerprinting({"CenterTV"}, 0, 0)
    /\ parsingQSL({<<>>})
    /\ filling({<<>>})
    /\ idleServices

ListenerInit ==
    /\ startedListener(ListenerKinds)
    /\ constructedClient({"HTMSheetsService"})
    /\ normalizing({<<>>})
    /\ merging({<<>>}, {<<>>}, {[code |-> "KVHB07M01", rowIndex |-> 0]})
    /\ publishing({"HTM"}, 0, {{}})
    /\ fingerprinting({"CenterTV"}, 0, 0)
    /\ parsingQSL({<<>>})
    /\ filling({<<>>})
    /\ idleServices

NormalizeInit ==
    /\ normalizing(Grids)
    /\ constructedClient({"HTMSheetsService"})
    /\ startedListener({"CD"})
    /\ previousData # <<>>
    /\ merging({<<>>}, {<<>>}, {[code |-> "KVHB07M01", rowIndex |-> 0]})
    /\ publishing({"HTM"}, 0, {{}})
    /\ fingerprinting({"CenterTV"}, 0, 0)
    /\ parsingQSL({<<>>})
    /\ filling({<<>>})
    /\ idleServices

MergeInit ==
    /\ merging(BaseGrids, DetailGrids, Requests)
    /\ constructedClient({"HTMSheetsService"})
    /\ startedListener({"CD"})
    /\ previousData # <<>>
    /\ normalizing({<<>>})
    /\ publishing({"HTM"}, 0, {{}})
    /\ fingerprinting({"CenterTV"}, 0, 0)
    /\ parsingQSL({<<>>})
    /\ filling({<<>>})
    /\ idleServices

PublishInit ==
    /\ publishing(ListenerKinds, MaxChanges, SUBSET AllRooms)
    /\ fingerprinting({"CenterTV"}, 0, 0)
    /\ parsingQSL({<<>>})
    /\ filling({<<>>})
    /\ constructedClient({"HTMSheetsService"})
    /\ startedListener({"CD"})
    /\ previousData # <<>>
    /\ normalizing({<<>>})
    /\ merging({<<>>}, {<<>>}, {[code |-> "KVHB07M01", rowIndex |-> 0]})
    /\ idleServices

ChecksumInit ==
    /\ fingerprinting(ChecksumKinds, MaxSlots, MaxSubRows)
    /\ parsingQSL({<<>>})
    /\ filling({<<>>})
    /\ constructedClient({"HTMSheetsService"})
    /\ startedListener({"CD"})
    /\ previousData # <<>>
    /\ normalizing({<<>>})
    /\ merging({<<>>}, {<<>>}, {[code |-> "KVHB07M01", rowIndex |-> 0]})
    /\ publishing({"HTM"}, 0, {{}})
    /\ idleServices

QslInit ==
    /\ parsingQSL(QslGrids)
    /\ filling({<<>>})
    /\ constructedClient({"HTMSheetsService"})
    /\ startedListener({"CD"})
    /\ previousData # <<>>
    /\ normalizing({<<>>})
    /\ merging({<<>>}, {<<>>}, {[code |-> "KVHB07M01", rowIndex |-> 0]})
    /\ publishing({"HTM"}, 0, {{}})
    /\ fingerprinting({"CenterTV"}, 0, 0)
    /\ idleServices

FillInit ==
    /\ filling(FillGrids)
    /\ parsingQSL({<<>>})
    /\ constructedClient({"HTMSheetsService"})
    /\ startedListener({"CD"})
    /\ previousData # <<>>
    /\ normalizing({<<>>})
    /\ merging({<<>>}, {<<>>}, {[code |-> "KVHB07M01", rowIndex |-> 0]})
    /\ publishing({"HTM"}, 0, {{}})
    /\ fingerprinting({"CenterTV"}, 0, 0)
    /\ idleServices

quietProgram ==
    /\ constructedClient({"HTMSheetsService"})
    /\ startedListener({"CD"})
    /\ previousData # <<>>
    /\ normalizing({<<>>})
    /\ merging({<<>>}, {<<>>}, {[code |-> "KVHB07M01", rowIndex |-> 0]})
    /\ publishing({"HTM"}, 0, {{}})
    /\ fingerprinting({"CenterTV"}, 0, 0)
    /\ parsingQSL({<<>>})
    /\ filling({<<>>})

SheetInit ==
    /\ choosing(MinutesOfDay)
    /\ caching({"QSL"})
    /\ guarding({0})
    /\ tracking({0})
    /\ quietProgram

DegradeInit ==
    /\ tracking({0})
    /\ merging(BaseGrids, DetailGrids, Requests)
    /\ choosing({0})
    /\ caching({"QSL"})
    /\ guarding({0})
    /\ constructedClient({"HTMSheetsService"})
    /\ startedListener({"CD"})
    /\ previousData # <<>>
    /\ normalizing({<<>>})
    /\ publishing({"HTM"}, 0, {{}})
    /\ fingerprinting({"CenterTV"}, 0, 0)
    /\ parsingQSL({<<>>})
    /\ filling({<<>>})

QuotaInit ==
    /\ guarding({0})
    /\ tracking({0})
    /\ choosing({0})
    /\ caching({"QSL"})
    /\ quietProgram

CacheInit ==
    /\ caching(CacheKinds)
    /\ choosing({0})
    /\ guarding({0})
    /\ tracking({0})
    /\ quietProgram

SpecFetch == FetchInit /\ [][FetchNext]_vars
SpecCycle == ListenerInit /\ [][ListenerNext]_vars
SpecNormalize == NormalizeInit /\ [][NormalizeNext]_vars
SpecMerge == MergeInit /\ [][MergeNext]_vars
SpecPublish == PublishInit /\ [][PublishNext]_vars
SpecChecksum == ChecksumInit /\ [][ChecksumNext]_vars
SpecQsl == QslInit /\ [][QslNext]_vars
SpecFill == FillInit /\ [][FillNext]_vars
SpecSheet == SheetInit /\ [][SheetNext]_vars
SpecCache == CacheInit /\ [][CacheNext]_vars
SpecQuota == QuotaInit /\ [][QuotaNext]_vars
SpecDegrade == DegradeInit /\ [][DegradeNext]_vars

(***************************************************************************)
(* Properties of the fetch client.                                         *)
(***************************************************************************)
Calls == BagToSet(calls)
AllQuota(call) == \A i \in 1..Len(call.outcomes) : call.outcomes[i] = "quota"

\* C3, as stated: for one throttled fetch client, any two upstream requests
\* are issued at least MIN_REQUEST_INTERVAL (100 ms) apart, also when several
\* callers wait in the throttle at the same time.
C3_RequestsSpaced ==
    Throttled(clientKind) => (minGap < 0 \/ minGap >= MIN_REQUEST_INTERVAL)

\* C8, as stated: when every upstream attempt of one fetch fails with a
\* quota-exceeded error, the fetch client (whichever it is) makes exactly
\* three attempts, then returns an empty grid.
C8_AnyClientThreeAttempts ==
    \A call \in Calls :
        (call.pc = "done" /\ AllQuota(call)) =>
            (Len(call.outcomes) = 3 /\ call.ret = "empty")

\* C8, amended: when every upstream attempt fails with a quota-exceeded
\* error, a retrying client (HTM, CD, Center TV) makes exactly three attempts
\* and the single-attempt client (GoogleSheetsService) exactly one; either
\* way the call then returns an empty grid, it does not throw.
C8_QuotaExhausted ==
    \A call \in Calls :
        (call.pc = "done" /\ AllQuota(call)) =>
            /\ call.ret = "empty"
            /\ Len(call.outcomes) =
                   IF clientKind = "GoogleSheetsService" THEN 1 ELSE 3

\* C8 witness: a retrying client's call has ended after three quota errors.
C8_Witness ==
    /\ clientKind = "HTMSheetsService"
    /\ \E call \in Calls :
          call.pc = "done" /\ call.outcomes = <<"quota", "quota", "quota">>

\* C9: when the upstream answers quota-exceeded to the first two attempts and
\* succeeds on the third, the call returns the grid; the wait before each
\* retry is 2^attempt * 1000 ms plus a jitter below 500 ms, for attempt 0 and
\* then attempt 1.
C9_BackoffThenGrid ==
    \A call \in Calls :
        /\ (call.pc = "done" /\ call.outcomes = <<"quota", "quota", "ok">>)
               => call.ret = "grid"
        /\ call.pc = "backoff" =>
               /\ call.attempt \in {0, 1}
               /\ call.attempt = Len(call.outcomes) - 1
               /\ call.delay >= (2 ^ call.attempt) * 1000
               /\ call.delay < (2 ^ call.attempt) * 1000 + 500
               /\ call.sleep <= call.delay

\* C9 witness: a call returned the grid on its third attempt, after the two
\* backoffs.
C9_Witness ==
    \E call \in Calls :
        /\ call.pc = "done"
        /\ call.outcomes = <<"quota", "quota", "ok">>
        /\ call.attempt = 2

\* C10: when an attempt fails with an error other than quota-exceeded, the
\* client makes no further attempt and returns an empty grid.
C10_OtherErrorStops ==
    \A call \in Calls :
        \A i \in 1..Len(call.outcomes) :
            call.outcomes[i] = "error" =>
                /\ i = Len(call.outcomes)
                /\ call.pc = "done"
                /\ call.ret = "empty"

\* C10 witness: a call ended on a non-quota error, here on its second attempt.
C10_Witness ==
    \E call \in Calls :
        call.pc = "done" /\ call.outcomes = <<"quota", "error">>

(***************************************************************************)
(* Properties of the listeners.  A cycle keeps, until it is forgotten, the *)
(* data it fetched per key (fetched), the stored fingerprint its diff read *)
(* per key (reads), the snapshot keys it wrote or deleted (wrote), the     *)
(* events and the summaries it published.                                  *)
(***************************************************************************)
Done == {i \in Slots : cycles[i].pc = "done"}
Polls == {i \in Slots : cycles[i].trigger \in {"cron", "manual"}}
EventsOf(c, k, type) ==
    Cardinality({n \in 1..Len(c.events) :
                    c.events[n].key = k /\ c.events[n].type = type})
Published(c, k) ==
    {n \in 1..Len(c.events) : c.events[n].key = k} \cup
    {n \in 1..Len(c.changes) : c.changes[n].key = k}

\* the record of key k in the current record list R of cycle c, "none" if
\* R has none
InR(c, k) == IF c.fetched[k] = "unfetched" THEN "none"
             ELSE delivered(listenerKind, c.fetched[k])

\* C1: a finished cycle has published exactly one `new` event for every key
\* in R that was not in S, exactly one `updated` event for every key in both
\* whose fingerprint differed from the stored one, and neither for a key in
\* both whose fingerprint was equal; S is the snapshot as the diff read it.
\* (The HTM loop has no list R: it walks S itself, and is covered while the
\* listener runs, when every entry of S is yielded once.)
C1_DiffExact ==
    \A i \in Done, k \in Keys :
        LET c == cycles[i]
            sum == calculateChecksum(InR(c, k))
        IN (InR(c, k) # "none" /\ (listenerKind = "HTM" => isListening)) =>
              /\ c.reads[k] # "unread"
              /\ EventsOf(c, k, "new") = (IF c.reads[k] = "none" THEN 1 ELSE 0)
              /\ EventsOf(c, k, "updated") =
                     (IF c.reads[k] \notin {"none", sum} THEN 1 ELSE 0)

\* C1 witness: one finished cycle of a full-diff listener published a `new`
\* event for one key and an `updated` event for the other.
C1_Witness ==
    /\ listenerKind \in {"CD", "CenterTV", "CDProduct"}
    /\ \E i \in Done, k1 \in Keys, k2 \in Keys :
          /\ EventsOf(cycles[i], k1, "new") = 1
          /\ EventsOf(cycles[i], k2, "updated") = 1

\* C2, as stated, for the HTM listener: at most one poll cycle (scheduled or
\* manual) is in progress at any moment, none starts or advances while an
\* earlier one is suspended at a fetch or a pacing delay.
C2_OneCycleAtATime ==
    listenerKind = "HTM" => Cardinality(Polls \cap Open) <= 1

\* C4, as stated: a scheduled cycle only ever starts while local time is
\* inside the listener's active-hours window, whatever the listener.
C4_NoCycleOutsideWindow ==
    \A i \in Slots :
        cycles[i].trigger = "cron" =>
            isInActiveProductionBlock(listenerKind, cycles[i].startedAt)

\* C4, amended: for the listeners whose handler consults the window (Center
\* TV, CD Product, QSL, legacy), a trigger outside the window starts no cycle
\* (no fetch, no event, no snapshot write); the HTM and CD handlers do not
\* consult it.
C4_WindowWhereChecked ==
    listenerKind \in {"CenterTV", "CDProduct", "QSL", "Legacy"} =>
        /\ \A i \in Slots :
              cycles[i].trigger = "cron" =>
                  isInActiveProductionBlock(listenerKind, cycles[i].startedAt)
        /\ (isListening /\ lastTrigger # "none") =>
              (lastTrigger = "outside"
                   <=> ~isInActiveProductionBlock(listenerKind, now))

\* C4 witness: a trigger outside the window was dropped by a listener that
\* consults the window, with a snapshot to protect.
C4_Witness ==
    /\ listenerKind \in {"CenterTV", "CDProduct", "QSL", "Legacy"}
    /\ lastTrigger = "outside"
    /\ previousData # <<>>
    /\ Polls = {}

\* C5, as stated, for the HTM listener: no scheduled cycle is fetching that
\* started less than the minimum spacing (90 s) after the start of the
\* listener's previous cycle.
C5_SpacingKept ==
    \A i \in Slots :
        (/\ listenerKind = "HTM"
         /\ cycles[i].trigger = "cron"
         /\ cycles[i].pc = "fetchKey"
         /\ cycles[i].sincePrev >= 0) =>
            cycles[i].sincePrev >= minSpacing(listenerKind)

\* C6, as stated: every finished cycle has published one summary event.
C6_SummaryEveryCycle == \A i \in Done : Len(cycles[i].summary) = 1

\* C6, amended: a finished cycle of the HTM, CD, Center TV or legacy listener
\* that published at least one change has published exactly one summary,
\* carrying the number of changes; a cycle without changes, and every cycle
\* of the CD Product and QSL listeners, has published none.
C6_SummaryOnlyWithChanges ==
    \A i \in Done :
        LET c == cycles[i]
        IN c.summary = IF /\ listenerKind \in {"HTM", "CD", "CenterTV", "Legacy"}
                          /\ Len(c.events) > 0
                       THEN <<Len(c.events)>> ELSE <<>>

\* C6 witness: a finished cycle with two changes and its summary of two.
C6_Witness ==
    \E i \in Done : Len(cycles[i].events) = 2 /\ cycles[i].summary = <<2>>

\* the keys whose fetch failed or came back empty in cycle c
Affected(c) ==
    IF ListFetch(listenerKind)
    THEN IF \A k \in Keys : c.fetched[k] = "none" THEN Keys ELSE {}
    ELSE {k \in Keys : c.fetched[k] = "none"}

\* C7, as stated: a cycle publishes no event for, and writes no snapshot
\* entry of, an entity whose fetch failed or returned an empty grid.
C7_EmptyIsNoData ==
    \A i \in Polls, k \in Keys :
        k \in Affected(cycles[i]) =>
            Published(cycles[i], k) = {} /\ k \notin cycles[i].wrote

C12_NoDeletionOnDemand ==
    listenerKind = "HTM" =>
        \A i \in Polls :
            /\ \A k \in Keys : EventsOf(cycles[i], k, "deleted") = 0
            /\ \A n \in 1..Len(cycles[i].changes) :
                   cycles[i].changes[n].type # "deleted"
            /\ isListening => cycles[i].enumerated \subseteq DOMAIN previousData

\* C12 witness: a finished HTM cycle found a tracked entity gone from the
\* sheet, and the entity is still in the snapshot.
C12_Witness ==
    /\ listenerKind = "HTM"
    /\ isListening
    /\ \E i \in Done, k \in Keys :
          /\ k \in cycles[i].enumerated
          /\ cycles[i].fetched[k] = "none"
          /\ upstream[k] = "none"
          /\ k \in DOMAIN previousData

\* the step in which cycle i runs to its end
Finishes(i) == cycles[i].pc \notin {"idle", "done"} /\ cycles'[i].pc = "done"

Compares(i, k) == cycles[i].reads[k] = "unread" /\ cycles'[i].reads[k] # "unread"

\* C14, as stated: when a cycle compares an entity whose fetched data are
\* identical to the data of the stored snapshot entry, it records no change
\* for the entity and leaves the entry (record and fingerprint) as it was.
C14_IdenticalDataNoChange ==
    [][\A i \in Slots, k \in Keys :
          (/\ Compares(i, k)
           /\ k \in DOMAIN previousData
           /\ previousData[k].data = InR(cycles'[i], k)) =>
              /\ Published(cycles'[i], k) = {}
              /\ k \in DOMAIN previousData'
              /\ previousData'[k] = previousData[k]]_vars

\* cycle c started from a snapshot that tracked entity e among others, no
\* other writer touched the snapshot before c compared, and what c fetched
\* differs from that snapshot in entity e only
OnlyChanged(c, e) ==
    LET S == c.snapshot
    IN /\ e \in DOMAIN S
       /\ Cardinality(DOMAIN S) > 1
       /\ \A k \in Keys \ DOMAIN S : InR(c, k) = "none"
       /\ \A k \in DOMAIN S :
              /\ InR(c, k) \notin {"none", "empty"}
              /\ c.reads[k] = S[k].checksum
              /\ (k # e) = (S[k].data = InR(c, k))

Writes(i, k) == k \in cycles'[i].wrote \ cycles[i].wrote

\* C16, as stated, for the HTM listener: a cycle never overwrites a snapshot
\* entry with the result of a fetch that was issued before the fetch the
\* entry came from.
C16_LaterFetchSupersedes ==
    [][\A i \in Slots, k \in Keys :
          (listenerKind = "HTM" /\ Writes(i, k) /\ k \in DOMAIN previousData) =>
              origin[k] <= cycles[i].issuedAt]_vars

\* the step in which cycle i goes from one entity to the next: the HTM,
\* Center TV, CD Product and QSL loops issue the fetch of another key, the CD
\* loop compares a record after the first
NextEntity(i) ==
    IF listenerKind = "CD"
    THEN cycles'[i].processed > cycles[i].processed /\ cycles'[i].processed >= 2
    ELSE /\ cycles[i].pc \in {"fetchKey", "pace"}
         /\ cycles'[i].pc = "fetchKey"
         /\ cycles'[i].key # cycles[i].key

DelayThenEntity(i) ==
    IF listenerKind = "HTM" THEN cycles'[i].pc = "fetchKey"
    ELSE cycles'[i].processed = cycles[i].processed + 1

RECURSIVE IsSubSeq(_, _)
IsSubSeq(s, t) ==
    IF s = <<>> THEN TRUE
    ELSE IF t = <<>> THEN FALSE
    ELSE IF Head(s) = Head(t) THEN IsSubSeq(Tail(s), Tail(t))
    ELSE IsSubSeq(s, Tail(t))

\* the keys of the events of cycle c, in the order of publication
EventKeys(c) == [n \in 1..Len(c.events) |-> c.events[n].key]

\* C22: the events a cycle has published come in the order in which the
\* cycle went through the entities (the loop over the entities, then the
\* deletion pass over the snapshot); the loops over a fixed list of entities
\* go through them in the order of the list, the HTM loop of a running
\* listener in the order of the snapshot map.
C22_EventsInEnumerationOrder ==
    \A i \in Slots :
        /\ IsSubSeq(EventKeys(cycles[i]), cycles[i].visited)
        /\ ~IteratesMap(listenerKind) => IsSubSeq(cycles[i].visited, KeyOrder)
        /\ (listenerKind = "HTM" /\ isListening) =>
               IsSubSeq(cycles[i].visited, entries)

\* C22 witness: a finished cycle of a listener that publishes at the end of
\* the cycle has published the events of two entities.
C22_Witness ==
    /\ ~InlineEmit(listenerKind)
    /\ \E i \in Done :
          /\ Len(cycles[i].events) = 2
          /\ cycles[i].events[1].key # cycles[i].events[2].key

(***************************************************************************)
(* Properties of the CD normalization.                                     *)
(***************************************************************************)
RowNumbers == 0..(Len(dataRows) - 1)
CodeOf(p) == dataRows[p + 1].code
SubRowsOf(p) == lineRowCount(CodeOf(p)) - 1

\* row p is a parent row, the only row of the grid with its code
ParentAt(p) ==
    /\ isParentRow(dataRows[p + 1])
    /\ \A r \in RowNumbers : CodeOf(r) = CodeOf(p) => r = p

\* the rows from number a to number b, in order
Run(a, b) == [n \in 1..(b - a + 1) |-> a + n - 1]

\* C17, as stated: when the parent row q of another line stands among the
\* sub-row positions of the parent row p (configured for N sub-rows, fewer
\* than N rows in between), the group of p holds exactly the rows between p
\* and q, a mismatch is logged for p, and q is parsed as the parent row of
\* its own group.
C17_EarlyParentOwnGroup ==
    normalized =>
        \A p, q \in RowNumbers :
            (/\ ParentAt(p) /\ ParentAt(q)
             /\ CodeOf(p) \in DOMAIN cdGroups
             /\ cdGroups[CodeOf(p)].parentRow = p
             /\ q > p /\ q - p <= SubRowsOf(p)
             /\ \A r \in (p + 1)..(q - 1) : ~hitsNextParent(dataRows[r + 1])) =>
                /\ cdGroups[CodeOf(p)].teamRows = Run(p + 1, q - 1)
                /\ \E m \in mismatches : m.code = CodeOf(p)
                /\ CodeOf(q) \in DOMAIN cdGroups
                /\ cdGroups[CodeOf(q)].parentRow = q

\* C18, as stated: every parent row p of the grid (configured for N
\* sub-rows) that is followed by N rows none of which carries a parent
\* marker has a group made of exactly those N rows, blank ones included.
C18_ExactlyNSubRows ==
    normalized =>
        \A p \in RowNumbers :
            (/\ ParentAt(p)
             /\ p + SubRowsOf(p) < Len(dataRows)
             /\ \A r \in (p + 1)..(p + SubRowsOf(p)) :
                    ~hitsNextParent(dataRows[r + 1])) =>
                /\ CodeOf(p) \in DOMAIN cdGroups
                /\ cdGroups[CodeOf(p)].parentRow = p
                /\ cdGroups[CodeOf(p)].teamRows = Run(p + 1, p + SubRowsOf(p))

(***************************************************************************)
(* Properties of the HTM merge.                                            *)
(***************************************************************************)
\* C19, as stated: the ENDLINE figures attached to an entity never come from
\* the ENDLINE row of another entity (a row whose key is another code),
\* wherever the rows stand in the two grids.
C19_DetailJoinedByKey ==
    (merged.pc = "done" /\ merged.record.source = "MERGED") =>
        keyOfRow(rftValues, merged.record.rowIndex)
            \in {"", merged.record.maChuyenLine}

(***************************************************************************)
(* Properties of the broadcast.                                            *)
(***************************************************************************)
\* C23: within a cycle the summary (system-update) goes out only after every
\* change the cycle found has been through emitChange: when it is on the
\* wire no change is left to publish, and no change message follows it.
C23_SummaryAfterEvents ==
    \A n \in DOMAIN wire :
        wire[n].event = "system-update" =>
            /\ outbox = <<>>
            /\ n = Len(wire)

C23_Witness ==
    /\ emitterKind \in {"HTM", "CD", "CenterTV"}
    /\ Summarised
    /\ Len(emitted) = MaxChanges
    /\ Len(wire) > MaxChanges

\* the call that carried the change to the room is on the wire
Reaches(room, change) ==
    \E n \in DOMAIN wire :
        /\ wire[n].room = room
        /\ wire[n].code = change.code
        /\ wire[n].type = change.type

\* the factory that owns the entity of the change: the factory field of its
\* record, or else the factory its code maps to ("" when neither tells)
OwningFactory(change) ==
    IF change.nhaMay # "" THEN change.nhaMay
    ELSE extractFactoryFromMaChuyenLine(change.code)

ReachesOwnRoom(change) ==
    OwnRoom(emitterKind, change.code) \in rooms =>
        Reaches(OwnRoom(emitterKind, change.code), change)

ReachesFactoryRoom(change) ==
    (/\ OwningFactory(change) # ""
     /\ FactoryRoom(OwningFactory(change)) \in rooms) =>
        Reaches(FactoryRoom(OwningFactory(change)), change)

\* C24, as stated: every change that went through emitChange was published
\* to the room of its entity's key and to the room of the owning factory
\* (a room nobody joined receives nothing either way).
C24_EntityAndFactoryRoom ==
    \A n \in DOMAIN emitted :
        ReachesOwnRoom(emitted[n]) /\ ReachesFactoryRoom(emitted[n])

\* C24, amended: every change is published to the room of its entity's key;
\* the changes of the HTM, CD and legacy listeners are published to the
\* room of the owning factory as well, the changes of the other listeners
\* to the room of the entity only.
C24_FactoryRoomThroughGateway ==
    \A n \in DOMAIN emitted :
        /\ ReachesOwnRoom(emitted[n])
        /\ ThroughGateway(emitterKind) => ReachesFactoryRoom(emitted[n])
        /\ ~ThroughGateway(emitterKind) =>
               \A m \in DOMAIN wire :
                   \/ wire[m].room = AllClients("system-update")
                   \/ \E k \in DOMAIN emitted :
                         wire[m].room = OwnRoom(emitterKind, emitted[k].code)

C24_Witness ==
    /\ emitterKind = "HTM"
    /\ \E n \in DOMAIN emitted :
         /\ emitted[n].nhaMay = ""
         /\ CodeRoom(emitted[n].code) \in rooms
         /\ FactoryRoom("TS1") \in rooms
         /\ Reaches(CodeRoom(emitted[n].code), emitted[n])
         /\ Reaches(FactoryRoom("TS1"), emitted[n])

\* a line of the log tells that the room had no client
LoggedEmpty(room) ==
    \E n \in DOMAIN logged :
        logged[n].room = room /\ logged[n].level \in {"warn", "debug"}

NoPublishError ==
    /\ pubPc # "failed"
    /\ \A n \in DOMAIN logged : logged[n].level # "error"

\* the room of the entity of a published change had no client: it is logged
EmptyOwnRoomLogged ==
    \A n \in DOMAIN emitted :
        OwnRoom(emitterKind, emitted[n].code) \notin rooms =>
            LoggedEmpty(OwnRoom(emitterKind, emitted[n].code))

\* the changes after one that met an empty room are published all the same
RemainingPublished ==
    /\ pubPc = "done" => outbox = <<>>
    /\ \A n \in DOMAIN emitted : ReachesOwnRoom(emitted[n])

\* the calls that sent a change to a room without clients
SentToEmpty ==
    {n \in DOMAIN wire :
        wire[n].room.space # "all clients" /\ wire[n].room \notin rooms}

\* C25, as stated: publishing a change to a room without a client raises no
\* error, is logged, and the remaining changes of the cycle are published.
C25_EmptyRoomLogged ==
    /\ NoPublishError
    /\ EmptyOwnRoomLogged
    /\ \A n \in SentToEmpty : LoggedEmpty(wire[n].room)
    /\ RemainingPublished

\* C25, amended: publishing a change to a room without a client raises no
\* error and the remaining changes of the cycle are published; it is logged
\* when the room is the room of the entity's key, and it leaves no line in
\* the log when the room is the factory room emitProductionUpdate sends to.
C25_EmptyEntityRoomLogged ==
    /\ NoPublishError
    /\ EmptyOwnRoomLogged
    /\ \A n \in SentToEmpty :
          \/ LoggedEmpty(wire[n].room)
          \/ /\ ThroughGateway(emitterKind)
             /\ wire[n].room.space = "production:all:all"
             /\ \E m \in DOMAIN emitted : wire[n].room = FactoryRoom(emitted[m].nhaMay)
    /\ RemainingPublished

C25_Witness ==
    /\ pubPc = "done"
    /\ Len(emitted) = 2
    /\ emitted[1].code # emitted[2].code
    /\ OwnRoom(emitterKind, emitted[1].code) \notin rooms
    /\ LoggedEmpty(OwnRoom(emitterKind, emitted[1].code))
    /\ OwnRoom(emitterKind, emitted[2].code) \in rooms
    /\ Reaches(OwnRoom(emitterKind, emitted[2].code), emitted[2])

(***************************************************************************)
(* Properties of the fingerprint.                                          *)
(***************************************************************************)
\* C27: when the record read differs from the stored one in the value of
\* one monitored scalar field, or of one monitored field of one nested
\* sub-record (a time slot, a sub-row, a group, a detail), the two
\* checksums differ.
C27_SingleFieldChangesToken ==
    (sumPc = "compared" /\ derivation \in {"scalar", "nested"}) =>
        storedSum # currentSum

C27_Witness ==
    /\ sumPc = "compared"
    /\ sumKind = "CD"
    /\ derivation = "nested"
    /\ storedRecord.subRows # currentRecord.subRows
    /\ storedRecord.hourlyData # <<>>
    /\ storedSum # currentSum

\* the two objects hold the same values in the fields
SameFields(fields, a, b) ==
    \A n \in DOMAIN fields : get(a, fields[n].key) = get(b, fields[n].key)

\* the two records hold the same values in every monitored field, those of
\* the time slots and of the sub-objects included
SameMonitored(kind, a, b) ==
    /\ SameFields(ScalarFields(kind), a.props, b.props)
    /\ \A n \in 1..MaxSlots :
          /\ hasSlot(a.hourlyData, timeSlots[n]) = hasSlot(b.hourlyData, timeSlots[n])
          /\ hasSlot(a.hourlyData, timeSlots[n]) =>
                SameFields(SlotFields(kind), slotData(a.hourlyData, timeSlots[n]),
                           slotData(b.hourlyData, timeSlots[n]))
    /\ Len(a.subRows) = Len(b.subRows)
    /\ \A r \in DOMAIN a.subRows :
          /\ SameFields(RowFields(kind), a.subRows[r].props, b.subRows[r].props)
          /\ Len(a.subRows[r].details) = Len(b.subRows[r].details)
          /\ \A d \in DOMAIN a.subRows[r].details :
                SameFields(DetailFields(kind), a.subRows[r].details[d],
                           b.subRows[r].details[d])

\* C28: two records that hold the same values in their monitored fields,
\* the per-time-slot sub-records included, have the same checksum, in
\* whatever order their keys were written and whatever else they hold.
C28_SameFieldsSameToken ==
    (sumPc = "compared" /\ SameMonitored(sumKind, storedRecord, currentRecord)) =>
        storedSum = currentSum

C28_Witness ==
    /\ sumPc = "compared"
    /\ sumKind = "HTM"
    /\ derivation = "again"
    /\ Len(storedRecord.hourlyData) = MaxSlots
    /\ storedRecord.props # currentRecord.props
    /\ storedRecord.hourlyData # currentRecord.hourlyData
    /\ Head(storedRecord.props).key # Head(currentRecord.props).key
    /\ storedSum = currentSum

(***************************************************************************)
(* Properties of the QSL parser.                                           *)
(***************************************************************************)
TeamRows == {i \in DOMAIN qslRows : isTeamMarker(qslRows[i].tenTo)}
TeamRowOf(k) == CHOOSE m \in TeamRows : Cardinality({x \in TeamRows : x <= m}) = k
MarksTuiNho(i) ==
    isTuiNhoMarker(qslRows[i].tenTo) \/ isTuiNhoMarker(qslRows[i].tglvRaw)
\* the rows of the trailing block of the team whose marker is row m: from the
\* first marker of the block on, up to the next team marker
TrailingBlock(m) ==
    {i \in DOMAIN qslRows :
        /\ i > m
        /\ \A j \in (m + 1)..i : j \notin TeamRows
        /\ \E j \in (m + 1)..i : MarksTuiNho(j)}
\* the rows of the block that name their group
Candidates(m) == {i \in TrailingBlock(m) : qslRows[i].nhom # ""}
Planned(i) == parseNumberQSL(qslRows[i].keHoach)
Included(k) == {qslTeams[k].tuiNhoGroups[n].row : n \in DOMAIN qslTeams[k].tuiNhoGroups}

\* C29: within the trailing block of a team, a candidate row is in the
\* trailing group of the team if and only if its planned quantity is greater
\* than zero, and nothing else is in the trailing group.
C29_TrailingRowsWithPlan ==
    qslPc = "parsed" =>
        /\ Len(qslTeams) = Cardinality(TeamRows)
        /\ \A k \in DOMAIN qslTeams :
             /\ Included(k) = {i \in Candidates(TeamRowOf(k)) : Planned(i) > 0}
             /\ Len(qslTeams[k].tuiNhoGroups) = Cardinality(Included(k))

C29_Witness ==
    /\ qslPc = "parsed"
    /\ \E k \in DOMAIN qslTeams :
         /\ Cardinality(Candidates(TeamRowOf(k))) = 5
         /\ Cardinality({i \in Candidates(TeamRowOf(k)) : Planned(i) > 0}) = 2
         /\ Cardinality(Included(k)) = 2
         /\ \A i \in Included(k) : Planned(i) > 0

(***************************************************************************)
(* Properties of the fill-forward.                                         *)
(***************************************************************************)
Blank(cell) == cell \in {"", " "}
\* the rows at or before row r (from 0) whose cell of the column is not blank
Carriers(column, r) == {q \in 0..r : ~Blank(fillRows[q + 1][column])}
\* the most recent value of the column that is not blank, at or before row r
MostRecent(column, r) ==
    IF Carriers(column, r) = {} THEN ""
    ELSE fillRows[(CHOOSE q \in Carriers(column, r) :
                      \A p \in Carriers(column, r) : p <= q) + 1][column]
\* the columns a routine fills
FilledColumns == IF fillKind = "subRows" THEN {"line"} ELSE {"nhaMay", "line"}

\* C30: every row is given, in the factory and line columns, the most recent
\* value that is not blank at or before it: the rows of a run take the value
\* of the first row of the run, and the value changes at the next cell that
\* is not blank.
C30_CarriedForward ==
    \A n \in DOMAIN filled : \A column \in FilledColumns :
        filled[n][column] = MostRecent(column, filled[n].at)

C30_Witness ==
    /\ fillKind = "parseRFTData"
    /\ Len(fillRows) = MaxFillRows
    /\ fillRows[1].line = "LINE 1" /\ fillRows[2].line = "" /\ fillRows[3].line = "LINE 2"
    /\ fillRows[1].nhaMay = "TS1" /\ fillRows[2].nhaMay = " " /\ fillRows[3].nhaMay = "TS2"
    /\ filled[1].line = "LINE 1" /\ filled[2].line = "LINE 1" /\ filled[3].line = "LINE 2"
    /\ filled[1].nhaMay = "TS1" /\ filled[2].nhaMay = "TS1" /\ filled[3].nhaMay = "TS2"

(***************************************************************************)
(* Properties of overlapping cycles, of the end of a cycle and of a        *)
(* stopped listener.                                                       *)
(***************************************************************************)
\* the data of the `updated` changes of key k that cycle c has collected or
\* published
UpdatedOf(c, k) ==
    {c.events[n].data : n \in {m \in 1..Len(c.events) :
                                  c.events[m].key = k /\ c.events[m].type = "updated"}}
    \cup
    {c.changes[n].data : n \in {m \in 1..Len(c.changes) :
                                  c.changes[m].key = k /\ c.changes[m].type = "updated"}}

\* the step in which cycle i takes an `updated` change of key k carrying d
TakesUpdated(i, k, d) == d \in UpdatedOf(cycles'[i], k) \ UpdatedOf(cycles[i], k)

\* C33, as stated: one upstream change of a tracked entity gives one `updated`
\* event in total, also when a manual cycle overlaps a scheduled one: no cycle
\* takes an `updated` change for an entity carrying the data the snapshot
\* entry already holds, which another cycle has written and published.
C33_OneUpdatedInTotal ==
    [][\A i \in Slots, k \in Keys, d \in Values :
          (TakesUpdated(i, k, d) /\ k \in DOMAIN previousData) =>
              previousData[k].data # d]_vars

\* the events of key k that cycle c has published
EventsFor(c, k) == {n \in 1..Len(c.events) : c.events[n].key = k}

\* C34: a poll cycle that has replaced, created or removed a snapshot entry
\* holds the change of that key until it publishes it, and has published it
\* when it ends, whether its fetches succeeded or failed: no finished cycle
\* has written an entry without an event for the key, none keeps a change
\* back.
C34_WrittenIsPublished ==
    \A i \in Polls : \A k \in cycles[i].wrote :
        /\ Published(cycles[i], k) # {}
        /\ i \in Done => (EventsFor(cycles[i], k) # {} /\ cycles[i].changes = <<>>)

\* C34 witness: a finished cycle created the entry of one entity and
\* published its event, while the fetch of the other entity gave nothing.
C34_Witness ==
    /\ listenerKind \in {"HTM", "CenterTV"}
    /\ \E i \in Done \cap Polls :
          /\ cycles[i].wrote = {"k1"}
          /\ cycles[i].fetched["k2"] = "none"
          /\ EventsFor(cycles[i], "k1") # {}
          /\ "k1" \in DOMAIN previousData

\* C35, as stated: a manual check does not weaken the spacing gate: for a
\* listener that can be asked for a manual check, no scheduled cycle has
\* started less than the minimum spacing after the start of the most recent
\* cycle, manual or scheduled.
C35_ManualKeepsGate ==
    HasManualCheck(listenerKind) =>
        \A i \in Slots :
            (cycles[i].trigger = "cron" /\ cycles[i].sincePrev >= 0) =>
                cycles[i].sincePrev >= minSpacing(listenerKind)

\* the changes cycle c has collected or published
Taken(c) == Len(c.events) + Len(c.changes)

\* C38, as stated: once stopRealtimeMonitoring has returned, no change event
\* is published and the snapshot is left as the stop left it, also by a
\* cycle that was suspended at a fetch or at a pacing delay when the stop
\* came, and also when a manual check is asked for afterwards (the model has
\* no restart).
C38_StoppedIsQuiet ==
    [][~isListening =>
          /\ previousData' = previousData
          /\ \A i \in Slots :
                /\ cycles'[i].trigger \in {"cron", "manual"} =>
                      /\ Taken(cycles'[i]) <= Taken(cycles[i])
                      /\ Len(cycles'[i].events) <= Len(cycles[i].events)]_vars

\* the slots in which the step starts the fetch of loadLineData
LoadsStarted == {i \in Slots : cycles[i].pc # "loadKey" /\ cycles'[i].pc = "loadKey"}

\* C40: loadLineData fetches only for a key that is not in the snapshot, so
\* a call for a key already there issues no fetch; the call leaves the
\* snapshot as it is, the return of its fetch writes the entry of its own
\* key only, and a load never collects or publishes a change event.
C40_LoadIsIdempotent ==
    [][/\ \A i \in LoadsStarted :
             /\ cycles'[i].key \notin DOMAIN previousData
             /\ previousData' = previousData
       /\ \A i \in Slots :
             cycles[i].pc = "loadKey" =>
                 /\ Taken(cycles[i]) = 0
                 /\ Taken(cycles'[i]) = 0
                 /\ \A k \in DOMAIN previousData :
                        k # cycles[i].key /\ cycles'[i].pc # "loadKey" =>
                            (k \in DOMAIN previousData' /\ previousData'[k] = previousData[k])]_vars

\* k1 was loaded, and a second subscription for k1 found it in the snapshot
C40_Witness ==
    /\ listenerKind = "HTM"
    /\ isListening
    /\ DOMAIN previousData = {"k1"}
    /\ budget.events = 2
    /\ budget.cycles = 0
    /\ upstream = [k \in Keys |-> "a"]
    /\ \A i \in Slots : cycles[i] = IdleCycle

(***************************************************************************)
(* Properties of the services: the ENDLINE sheet choice, the read-through  *)
(* caches, the quota guard and the merge with a failed detail read.        *)
(***************************************************************************)
\* C31, as stated: the ENDLINE detail sheet is chosen by local
\* (Asia/Ho_Chi_Minh) time: strictly before 08:30 the ENDLINE_BEFORE_DATA
\* sheet is read, at or after 08:30 the ENDLINE_DAILY_DATA sheet.
C31_SwitchAtHalfPastEight ==
    sheetConfig # "none" =>
        (sheetConfig = "ENDLINE_BEFORE_DATA"
            <=> currentTimeInMinutes(utcMinutes) < 8 * 60 + 30)

\* C32: a value served from the read-through cache comes from an entry
\* younger than the TTL of its service (15 s for QSL and CD Product, 30 s for
\* Center TV), the age counted from the moment the entry was stored; a call
\* that finds the entry at an age of the TTL or more, or finds none, issues
\* an upstream read instead.
C32_ServedWithinTTL ==
    \A c \in CacheCallers :
        /\ cacheCalls[c].via = "cache" =>
              (0 <= cacheCalls[c].age /\ cacheCalls[c].age < CACHE_TTL(cacheKind))
        /\ (cacheCalls[c].via # "none" /\ cacheCalls[c].age >= CACHE_TTL(cacheKind)) =>
              (cacheCalls[c].via = "read" /\ \E n \in DOMAIN upstreamReads : upstreamReads[n] = cacheCalls[c].issuedAt)

\* one caller was served from the cache, another found the entry at the age
\* of the TTL or more and waits for its read
C32_Witness ==
    \E c, d \in CacheCallers :
        /\ cacheCalls[c].via = "cache"
        /\ cacheCalls[c].age > 0
        /\ cacheCalls[d].pc = "reading"
        /\ cacheCalls[d].age >= CACHE_TTL(cacheKind)

\* C39, as stated: for one cache key, at most one upstream read is issued
\* per TTL window, also when several callers request the key at the same
\* time while the entry is missing or expired.
C39_OneReadPerWindow ==
    \A m, n \in DOMAIN upstreamReads :
        m < n => upstreamReads[n] - upstreamReads[m] >= CACHE_TTL(cacheKind)

\* C36, as stated: when a read exhausts its retries because of
\* quota-exceeded errors, the quota-exceeded flag of the client becomes set
\* with a reset time 60 s later, so that the getProductionData calls within
\* that minute are served without a new upstream request.
C36_ExhaustionSetsFlag ==
    (/\ productionCall.pc = "done"
     /\ Len(productionCall.outcomes) = maxRetries
     /\ \A n \in DOMAIN productionCall.outcomes : productionCall.outcomes[n] = "quota") =>
        /\ isQuotaExceeded
        /\ quotaResetTime = quotaNow + 60000

\* C37, as stated: if, in an HTM cycle, the base-sheet read succeeds but the
\* ENDLINE detail read fails or returns nothing, no change event is emitted
\* for an entity whose upstream data has not changed, and its snapshot entry
\* is left unchanged (the sheets of this specification never change).
C37_FailedDetailIsQuiet ==
    \A n \in DOMAIN htmChanges : htmChanges[n].detail # "nothing"

====
